---------------------------- MODULE Spec2Model ----------------------------
(***************************************************************************)
(* State-machine model of the LED copper string controller firmware        *)
(* (firmware/src/main.c): TB6612 H-bridge polarity driver, PWM brightness  *)
(* with CIE correction, fade engine, identify effects, button handling,    *)
(* battery gauge and startup resolution.                                   *)
(*                                                                         *)
(* Handlers run to completion on the system work queue (a FIFO);          *)
(* delayable work items sit in `timers` until their timeout expires and    *)
(* are then appended to `workq`.                                           *)
(***************************************************************************)
EXTENDS Integers, Sequences, FiniteSets, TLC

(***************************************************************************)
(* Program constants                                                       *)
(***************************************************************************)
BATTERY_REPORT_INTERVAL_SEC == 3600
LONG_PRESS_BLINKS == 6
BUTTON_LONG_PRESS_MS == 3000
TRANSITION_STEP_MS == 20
TB6612_PWM_FREQUENCY_HZ == 1000
ZB_ZCL_ON_OFF_STARTUP_OFF == 0
ZB_ZCL_ON_OFF_STARTUP_ON == 1
ZB_ZCL_ON_OFF_STARTUP_TOGGLE == 2
ZB_ZCL_ON_OFF_STARTUP_PREVIOUS == 255
ZB_ZCL_LEVEL_STARTUP_MINIMUM == 0
ZB_ZCL_LEVEL_STARTUP_PREVIOUS == 255
ZB_ZCL_LEVEL_CONTROL_LEVEL_MAX_VALUE == 255
ZB_ZCL_CLUSTER_ID_ON_OFF == 6
ZB_ZCL_CLUSTER_ID_LEVEL_CONTROL == 8
ZB_ZCL_LEVEL_CONTROL_LEVEL_MIN_VALUE == 0
EFFECT_ID_BLINK == 0
EFFECT_ID_BREATHE == 1
EFFECT_ID_OKAY == 2
EFFECT_ID_CHANNEL_CHANGE == 11
EFFECT_ID_FINISH_EFFECT == 254
EFFECT_ID_STOP == 255
DEFAULT_LAST_BRIGHTNESS == 254
DEFAULT_ON_OFF_TRANSITION_TIME == 10
DEFAULT_TRANSITION_MS == 1000
BLINK_STEP_MS == 500
OKAY_STEP_MS == 200
CHANNEL_CHANGE_HOLD_MS == 7500
BREATHE_STEPS == 30
OKAY_STEPS == 4
CHANNEL_CHANGE_DIM == 25
FULL_BRIGHTNESS == 255

(* PWM period in nanoseconds of the brightness channel *)
pwm_period == 1000000000 \div TB6612_PWM_FREQUENCY_HZ

(***************************************************************************)
(* Bounds of the model                                                     *)
(***************************************************************************)
(* resolution of the model clock, in milliseconds *)
TickMs == 1000
(* ages (in clock ticks) are counted up to this cap *)
MaxAge == 4
(* event counters of one button episode saturate here *)
MaxCount == 2
(* number of external stimuli (commands, button presses) in one run *)
MaxCmds == 2
(* number of PWM writes that fail in one run *)
MaxPwmFailures == 1
(* largest voltage handed to the battery curve *)
MaxMv == 65535

(* levels sent by set-level commands *)
SetLevels == {0, 1, 128, 255}
(* values written to the on_off_transition_time attribute (1/10 s) *)
TransitionTimes == {1, 656}
(* effect ids received with the identify cluster's trigger-effect command *)
AllEffectIds == {EFFECT_ID_BLINK, EFFECT_ID_BREATHE, EFFECT_ID_OKAY,
                 EFFECT_ID_CHANNEL_CHANGE, EFFECT_ID_FINISH_EFFECT,
                 EFFECT_ID_STOP}
(* the effects sent while fades and commands are interleaved with them *)
EffectIds == AllEffectIds \ {EFFECT_ID_BREATHE}
(* startup policies apply_startup_behavior is applied to; 3 and 128 stand
   for values that name no policy *)
StartUpOnOffValues ==
    {ZB_ZCL_ON_OFF_STARTUP_OFF, ZB_ZCL_ON_OFF_STARTUP_ON,
     ZB_ZCL_ON_OFF_STARTUP_TOGGLE, ZB_ZCL_ON_OFF_STARTUP_PREVIOUS, 3}
StartUpLevelValues ==
    {ZB_ZCL_LEVEL_STARTUP_MINIMUM, ZB_ZCL_LEVEL_STARTUP_PREVIOUS, 1, 128}
(* targets and durations (ms) of direct light_fade_to calls *)
FadeLevels == {0, 1, 100, 255}
FadeDurations == {0, 1, 50, 100}

Min(a, b) == IF a < b THEN a ELSE b
Max(a, b) == IF a > b THEN a ELSE b
Range(s) == {s[i] : i \in 1..Len(s)}
(* C integer division: the quotient is truncated toward zero *)
CDiv(a, b) == IF a >= 0 THEN a \div b ELSE -((-a) \div b)
U8(x) == x % 256
U16(x) == x % 65536

(***************************************************************************)
(* CIE 1931 lightness correction table (cie1931_lut[level], level 0..255)  *)
(***************************************************************************)
cie1931_lut == <<
       0,   0,   0,   0,   0,   1,   1,   1,   1,   1,   1,   1,   1,   1,   2,   2,
       2,   2,   2,   2,   2,   2,   2,   3,   3,   3,   3,   3,   3,   3,   3,   4,
       4,   4,   4,   4,   4,   5,   5,   5,   5,   5,   6,   6,   6,   6,   6,   7,
       7,   7,   7,   8,   8,   8,   8,   9,   9,   9,  10,  10,  10,  10,  11,  11,
      11,  12,  12,  12,  13,  13,  13,  14,  14,  15,  15,  15,  16,  16,  17,  17,
      17,  18,  18,  19,  19,  20,  20,  21,  21,  22,  22,  23,  23,  24,  24,  25,
      25,  26,  26,  27,  28,  28,  29,  29,  30,  31,  31,  32,  32,  33,  34,  34,
      35,  36,  37,  37,  38,  39,  39,  40,  41,  42,  43,  43,  44,  45,  46,  47,
      47,  48,  49,  50,  51,  52,  53,  54,  54,  55,  56,  57,  58,  59,  60,  61,
      62,  63,  64,  65,  66,  67,  68,  70,  71,  72,  73,  74,  75,  76,  77,  79,
      80,  81,  82,  83,  85,  86,  87,  88,  90,  91,  92,  94,  95,  96,  98,  99,
     100, 102, 103, 105, 106, 108, 109, 110, 112, 113, 115, 116, 118, 120, 121, 123,
     124, 126, 128, 129, 131, 132, 134, 136, 138, 139, 141, 143, 145, 146, 148, 150,
     152, 154, 155, 157, 159, 161, 163, 165, 167, 169, 171, 173, 175, 177, 179, 181,
     183, 185, 187, 189, 191, 193, 196, 198, 200, 202, 204, 207, 209, 211, 214, 216,
     218, 220, 223, 225, 228, 230, 232, 235, 237, 240, 242, 245, 247, 250, 252, 255 >>

(***************************************************************************)
(* State                                                                   *)
(***************************************************************************)
VARIABLES
    booted,                 \* main() has reached zigbee_enable()
    hw,                     \* actuator: current_brightness, light_is_on,
                            \* polarity_phase, ain1, ain2, standby,
                            \* polarity_timer (running), pwm_pulse
    on_off,                 \* dev_ctx.on_off_attr.on_off
    current_level,          \* dev_ctx.level_control_attr.current_level
    on_off_transition_time, \* dev_ctx.level_control_attr.on_off_transition_time
    start_up_on_off,        \* dev_ctx.on_off_attr.start_up_on_off
    start_up_current_level, \* dev_ctx.level_control_attr.start_up_current_level
    last_brightness,        \* app_state.last_brightness
    nvs,                    \* settings store: light/on_off, light/level (-1: absent)
    transition_start, transition_target,
    transition_elapsed, transition_duration,
    effect_type, effect_step,
    workq,                  \* system work queue (FIFO of submitted work items)
    timers,                 \* delayable work items whose timeout is running
    button_pin,             \* physical button level (TRUE: pressed)
    app_pressed,            \* app_state.pressed
    press_age,              \* k_uptime_get() - app_state.press_time, in ticks
    hold_age,               \* time since the last physical press edge, in ticks
    ep,                     \* events of the current button episode (history)
    voltage_mv, percent,    \* battery: measured voltage and derived percent
    cmds,                   \* number of external stimuli so far (history)
    pwm_failures,           \* number of failed PWM writes so far (history)
    last_op,                \* the last operation and its brightness write (history)
    fade_req,               \* the last light_fade_to call (history)
    blink,                  \* a Blink effect started during a fade (history)
    dev_ready,              \* device_is_ready() of each peripheral
    settings_err,           \* what settings_subsys_init and settings_load return
    main_ret,               \* value main() returned ("none": it has not)
    stages,                 \* boot stages main() has completed, in order
    joined,                 \* ZB_JOINED()
    status_led,             \* status LED pin level
    battery_work_init,      \* k_work_init_delayable(&battery_work) was done
    battery_voltage,        \* dev_ctx.power_config_attr.battery_voltage
    battery_percentage,     \* dev_ctx.power_config_attr.battery_percentage
    adc_attempted,          \* an ADC measurement was attempted (history)
    battery_started,        \* battery_start_reporting was called (history)
    fault,                  \* "none", or how a fatal error ended the session
    lp_left,                \* LED toggles left in long_press_work_handler
    off_pc,                 \* statements of tb6612_off already executed
    param                   \* the callback parameter of the last zcl_device_cb call

lightVars == <<hw, on_off, current_level, on_off_transition_time,
               start_up_on_off, start_up_current_level, last_brightness, nvs,
               transition_start, transition_target, transition_elapsed,
               transition_duration, effect_type, effect_step>>
workVars == <<workq, timers>>
buttonVars == <<button_pin, app_pressed, press_age, hold_age, ep>>
batteryVars == <<voltage_mv, percent>>
counters == <<cmds, pwm_failures>>
ghostVars == <<fade_req, blink>>
sysVars == <<dev_ready, settings_err, main_ret, stages, joined, status_led,
             battery_work_init, battery_voltage, battery_percentage,
             adc_attempted, battery_started, fault, lp_left, off_pc,
             param>>

(* the same without the callback parameter *)
sysRest == <<dev_ready, settings_err, main_ret, stages, joined, status_led,
             battery_work_init, battery_voltage, battery_percentage,
             adc_attempted, battery_started, fault, lp_left, off_pc>>
vars == <<booted, lightVars, workVars, buttonVars, batteryVars, counters,
          last_op, ghostVars, sysVars>>

(***************************************************************************)
(* Work queue primitives                                                   *)
(***************************************************************************)
Remove(q, w) == SelectSeq(q, LAMBDA x : x # w)

(* k_work_submit: a work item already queued is not queued twice *)
k_work_submit(wk, w) ==
    IF w \in Range(wk.q) THEN wk ELSE [wk EXCEPT !.q = Append(wk.q, w)]

(* k_work_schedule: no effect on an item that is already scheduled or queued;
   K_NO_WAIT (delay 0) queues it at once *)
k_work_schedule(wk, w, delay) ==
    IF w \in wk.t \/ w \in Range(wk.q) THEN wk
    ELSE IF delay = 0 THEN [wk EXCEPT !.q = Append(wk.q, w)]
    ELSE [wk EXCEPT !.t = wk.t \cup {w}]

k_work_cancel_delayable(wk, w) ==
    [q |-> Remove(wk.q, w), t |-> wk.t \ {w}]

Work == [q |-> workq, t |-> timers]
(* the work record seen by the handler at the head of the queue *)
Running == [q |-> Tail(workq), t |-> timers]


(***************************************************************************)
(* TB6612 H-bridge                                                         *)
(***************************************************************************)
(* variant: the tick does not look at light_is_on *)
polarity_timer_handler_unguarded(h) ==
    IF ~h.polarity_phase
    THEN [h EXCEPT !.polarity_phase = TRUE, !.ain1 = 0, !.ain2 = 1]
    ELSE [h EXCEPT !.polarity_phase = FALSE, !.ain1 = 1, !.ain2 = 0]

(* polarity_timer_handler: inert while the light is off *)
polarity_timer_handler(h) ==
    IF ~h.light_is_on THEN h
    ELSE IF ~h.polarity_phase
         THEN [h EXCEPT !.polarity_phase = TRUE, !.ain1 = 0, !.ain2 = 1]
         ELSE [h EXCEPT !.polarity_phase = FALSE, !.ain1 = 1, !.ain2 = 0]

(* the actuator states polarity_timer_handler passes through, one per
   statement: the phase flip, the write of AIN1, the write of AIN2 *)
polarity_timer_writes(h) ==
    IF ~h.light_is_on THEN <<h>>
    ELSE LET h1 == [h EXCEPT !.polarity_phase = ~h.polarity_phase]
             h2 == [h1 EXCEPT !.ain1 = IF h1.polarity_phase THEN 0 ELSE 1]
             h3 == [h2 EXCEPT !.ain2 = IF h1.polarity_phase THEN 1 ELSE 0]
         IN  <<h1, h2, h3>>

(* the actuator states tb6612_on passes through, one per statement *)
tb6612_on_writes(h) ==
    LET h1 == [h EXCEPT !.standby = 1]
        h2 == [h1 EXCEPT !.polarity_phase = FALSE]
        h3 == [h2 EXCEPT !.ain1 = 1]
        h4 == [h3 EXCEPT !.ain2 = 0]
        h5 == [h4 EXCEPT !.light_is_on = TRUE]
        h6 == [h5 EXCEPT !.polarity_timer = TRUE]
    IN  <<h1, h2, h3, h4, h5, h6>>

(* variant: the phase is left as the last tick set it *)
tb6612_on_keep_phase(h) ==
    [h EXCEPT !.standby = 1, !.ain1 = 1, !.ain2 = 0,
              !.light_is_on = TRUE, !.polarity_timer = TRUE]

(* tb6612_on: standby released, phase A driven, alternation timer started *)
tb6612_on(h) ==
    [h EXCEPT !.standby = 1, !.polarity_phase = FALSE, !.ain1 = 1, !.ain2 = 0,
              !.light_is_on = TRUE, !.polarity_timer = TRUE]

tb6612_off(h) ==
    [h EXCEPT !.light_is_on = FALSE, !.polarity_timer = FALSE,
              !.ain1 = 0, !.ain2 = 0, !.standby = 0]

(* statement pc + 1 of tb6612_off (pc statements already executed) *)
tb6612_off_step(h, pc) ==
    CASE pc = 0 -> [h EXCEPT !.light_is_on = FALSE]
      [] pc = 1 -> [h EXCEPT !.polarity_timer = FALSE]
      [] pc = 2 -> [h EXCEPT !.ain1 = 0]
      [] pc = 3 -> [h EXCEPT !.ain2 = 0]
      [] OTHER  -> [h EXCEPT !.standby = 0]

TB6612_OFF_STATEMENTS == 5

(***************************************************************************)
(* PWM light control                                                       *)
(***************************************************************************)
(* variant: the corrected value is scaled as one of 256 steps *)
Pulse_div256(brightness) == (cie1931_lut[brightness + 1] * pwm_period) \div 256

(* pulse width written for a level: corrected * period / 255 *)
Pulse(brightness) == (cie1931_lut[brightness + 1] * pwm_period) \div 255

(* variant: the H-bridge is enabled on every non-zero write *)
light_set_brightness_restart(h, brightness, pwm_ok) ==
    IF ~pwm_ok THEN h
    ELSE LET h1 == [h EXCEPT !.pwm_pulse = Pulse(brightness),
                             !.current_brightness = brightness]
         IN  IF brightness > 0 THEN tb6612_on(h1)
             ELSE IF brightness = 0 /\ h1.light_is_on THEN tb6612_off(h1)
             ELSE h1

(* variant: current_brightness is recorded before the PWM write is tried *)
light_set_brightness_record_first(h, brightness, pwm_ok) ==
    LET h0 == [h EXCEPT !.current_brightness = brightness]
    IN  IF ~pwm_ok THEN h0
        ELSE LET h1 == [h0 EXCEPT !.pwm_pulse = Pulse(brightness)]
             IN  IF brightness > 0 /\ ~h1.light_is_on THEN tb6612_on(h1)
                 ELSE IF brightness = 0 /\ h1.light_is_on THEN tb6612_off(h1)
                 ELSE h1

(* light_set_brightness; pwm_ok is the outcome of pwm_set_pulse_dt *)
light_set_brightness(h, brightness, pwm_ok) ==
    IF ~pwm_ok THEN h
    ELSE LET h1 == [h EXCEPT !.pwm_pulse = Pulse(brightness),
                             !.current_brightness = brightness]
         IN  IF brightness > 0 /\ ~h1.light_is_on THEN tb6612_on(h1)
             ELSE IF brightness = 0 /\ h1.light_is_on THEN tb6612_off(h1)
             ELSE h1

(* brightness the attributes ask for: current_level if on, else 0 *)
Steady(on, level) == IF on THEN level ELSE 0

(***************************************************************************)
(* Smooth brightness transitions                                           *)
(***************************************************************************)
Transition == [start |-> transition_start, target |-> transition_target,
               elapsed |-> transition_elapsed, duration |-> transition_duration]

(* value a non-final tick applies *)
Interpolate(tr, elapsed) ==
    U8(tr.start + CDiv((tr.target - tr.start) * elapsed, tr.duration))

(* variant: the fade ends only once elapsed exceeds the duration *)
transition_work_handler_gt(h, tr, wk, pwm_ok) ==
    LET elapsed == U16(tr.elapsed + TRANSITION_STEP_MS)
        tr1 == [tr EXCEPT !.elapsed = elapsed]
    IN  IF elapsed > tr.duration
        THEN [h |-> light_set_brightness(h, tr.target, pwm_ok),
              tr |-> tr1, wk |-> wk, level |-> tr.target]
        ELSE [h |-> light_set_brightness(h, Interpolate(tr, elapsed), pwm_ok),
              tr |-> tr1,
              wk |-> k_work_schedule(wk, "transition", TRANSITION_STEP_MS),
              level |-> Interpolate(tr, elapsed)]

transition_work_handler(h, tr, wk, pwm_ok) ==
    LET elapsed == U16(tr.elapsed + TRANSITION_STEP_MS)
        tr1 == [tr EXCEPT !.elapsed = elapsed]
    IN  IF elapsed >= tr.duration
        THEN [h |-> light_set_brightness(h, tr.target, pwm_ok),
              tr |-> tr1, wk |-> wk, level |-> tr.target]
        ELSE [h |-> light_set_brightness(h, Interpolate(tr, elapsed), pwm_ok),
              tr |-> tr1,
              wk |-> k_work_schedule(wk, "transition", TRANSITION_STEP_MS),
              level |-> Interpolate(tr, elapsed)]

(* variant: a zero duration is not treated as instant *)
light_fade_to_no_zero(h, tr, wk, target, duration_ms, pwm_ok) ==
    LET wk1 == k_work_cancel_delayable(wk, "transition")
    IN  IF h.current_brightness = target
        THEN [h |-> light_set_brightness(h, target, pwm_ok),
              tr |-> tr, wk |-> wk1, level |-> target]
        ELSE [h |-> h,
              tr |-> [start |-> h.current_brightness, target |-> target,
                      elapsed |-> 0, duration |-> duration_ms],
              wk |-> k_work_schedule(wk1, "transition", 0),
              level |-> -1]

(* variant: the transition work is not cancelled first *)
light_fade_to_no_cancel(h, tr, wk, target, duration_ms, pwm_ok) ==
    IF duration_ms = 0 \/ h.current_brightness = target
    THEN [h |-> light_set_brightness(h, target, pwm_ok),
          tr |-> tr, wk |-> wk, level |-> target]
    ELSE [h |-> h,
          tr |-> [start |-> h.current_brightness, target |-> target,
                  elapsed |-> 0, duration |-> duration_ms],
          wk |-> k_work_schedule(wk, "transition", 0),
          level |-> -1]

light_fade_to(h, tr, wk, target, duration_ms, pwm_ok) ==
    LET wk1 == k_work_cancel_delayable(wk, "transition")
    IN  IF duration_ms = 0 \/ h.current_brightness = target
        THEN [h |-> light_set_brightness(h, target, pwm_ok),
              tr |-> tr, wk |-> wk1, level |-> target]
        ELSE [h |-> h,
              tr |-> [start |-> h.current_brightness, target |-> target,
                      elapsed |-> 0, duration |-> duration_ms],
              wk |-> k_work_schedule(wk1, "transition", 0),
              level |-> -1]

(* save_light_state: both keys are written *)
save_light_state(on, level) == [on_off |-> IF on THEN 1 ELSE 0, level |-> level]

(***************************************************************************)
(* Identify effects                                                        *)
(***************************************************************************)
(* variant: Breathe runs one step too many *)
EffectStepBreatheLong(type, step, on, level) ==
    LET restore == [level |-> Steady(on, level), type |-> EFFECT_ID_STOP,
                    step |-> step, delay |-> -1]
    IN  CASE type = EFFECT_ID_BLINK ->
               IF step = 0
               THEN [level |-> FULL_BRIGHTNESS, type |-> type, step |-> 1,
                     delay |-> BLINK_STEP_MS]
               ELSE restore
          [] type = EFFECT_ID_BREATHE ->
               IF step <= BREATHE_STEPS
               THEN [level |-> IF step % 2 = 0 THEN FULL_BRIGHTNESS ELSE 0,
                     type |-> type, step |-> U8(step + 1),
                     delay |-> BLINK_STEP_MS]
               ELSE restore
          [] type = EFFECT_ID_OKAY ->
               IF step < OKAY_STEPS
               THEN [level |-> IF step % 2 = 0 THEN FULL_BRIGHTNESS ELSE 0,
                     type |-> type, step |-> U8(step + 1),
                     delay |-> OKAY_STEP_MS]
               ELSE restore
          [] type = EFFECT_ID_CHANNEL_CHANGE ->
               IF step = 0
               THEN [level |-> FULL_BRIGHTNESS, type |-> type, step |-> 1,
                     delay |-> BLINK_STEP_MS]
               ELSE IF step = 1
               THEN [level |-> CHANNEL_CHANGE_DIM, type |-> type, step |-> 2,
                     delay |-> CHANNEL_CHANGE_HOLD_MS]
               ELSE restore
          [] OTHER -> restore

(* one run of effect_work_handler: the brightness it writes, the next
   effect_type and effect_step, and the delay of the next step (-1: none) *)
EffectStep(type, step, on, level) ==
    LET restore == [level |-> Steady(on, level), type |-> EFFECT_ID_STOP,
                    step |-> step, delay |-> -1]
    IN  CASE type = EFFECT_ID_BLINK ->
               IF step = 0
               THEN [level |-> FULL_BRIGHTNESS, type |-> type, step |-> 1,
                     delay |-> BLINK_STEP_MS]
               ELSE restore
          [] type = EFFECT_ID_BREATHE ->
               IF step < BREATHE_STEPS
               THEN [level |-> IF step % 2 = 0 THEN FULL_BRIGHTNESS ELSE 0,
                     type |-> type, step |-> U8(step + 1),
                     delay |-> BLINK_STEP_MS]
               ELSE restore
          [] type = EFFECT_ID_OKAY ->
               IF step < OKAY_STEPS
               THEN [level |-> IF step % 2 = 0 THEN FULL_BRIGHTNESS ELSE 0,
                     type |-> type, step |-> U8(step + 1),
                     delay |-> OKAY_STEP_MS]
               ELSE restore
          [] type = EFFECT_ID_CHANNEL_CHANGE ->
               IF step = 0
               THEN [level |-> FULL_BRIGHTNESS, type |-> type, step |-> 1,
                     delay |-> BLINK_STEP_MS]
               ELSE IF step = 1
               THEN [level |-> CHANNEL_CHANGE_DIM, type |-> type, step |-> 2,
                     delay |-> CHANNEL_CHANGE_HOLD_MS]
               ELSE restore
          [] OTHER -> restore

(* variant: the restore step leaves effect_type as it was *)
effect_work_handler_keep_type(h, type, step, wk, on, level, pwm_ok) ==
    LET e == EffectStep(type, step, on, level)
    IN  [h |-> light_set_brightness(h, e.level, pwm_ok),
         type |-> type, step |-> e.step,
         wk |-> IF e.delay < 0 THEN wk
                ELSE k_work_schedule(wk, "effect", e.delay),
         level |-> e.level]

effect_work_handler(h, type, step, wk, on, level, pwm_ok) ==
    LET e == EffectStep(type, step, on, level)
    IN  [h |-> light_set_brightness(h, e.level, pwm_ok),
         type |-> e.type, step |-> e.step,
         wk |-> IF e.delay < 0 THEN wk
                ELSE k_work_schedule(wk, "effect", e.delay),
         level |-> e.level]

(* variant: FinishEffect is scheduled like a scripted effect *)
start_identify_effect_finish_late(h, wk, effect_id, on, level, pwm_ok) ==
    LET wk1 == k_work_cancel_delayable(wk, "effect")
    IN  IF effect_id = EFFECT_ID_STOP
        THEN [h |-> light_set_brightness(h, Steady(on, level), pwm_ok),
              type |-> effect_id, step |-> 0, wk |-> wk1,
              level |-> Steady(on, level)]
        ELSE [h |-> h, type |-> effect_id, step |-> 0,
              wk |-> k_work_schedule(wk1, "effect", 0), level |-> -1]

(* variant: starting an effect also cancels the pending fade tick *)
start_identify_effect_cancel_fade(h, wk, effect_id, on, level, pwm_ok) ==
    LET wk1 == k_work_cancel_delayable(
                   k_work_cancel_delayable(wk, "effect"), "transition")
    IN  IF effect_id = EFFECT_ID_STOP \/ effect_id = EFFECT_ID_FINISH_EFFECT
        THEN [h |-> light_set_brightness(h, Steady(on, level), pwm_ok),
              type |-> effect_id, step |-> 0, wk |-> wk1,
              level |-> Steady(on, level)]
        ELSE [h |-> h, type |-> effect_id, step |-> 0,
              wk |-> k_work_schedule(wk1, "effect", 0), level |-> -1]

(* variant: a pending effect step is not cancelled *)
start_identify_effect_no_cancel(h, wk, effect_id, on, level, pwm_ok) ==
    IF effect_id = EFFECT_ID_STOP \/ effect_id = EFFECT_ID_FINISH_EFFECT
    THEN [h |-> light_set_brightness(h, Steady(on, level), pwm_ok),
          type |-> effect_id, step |-> 0, wk |-> wk,
          level |-> Steady(on, level)]
    ELSE [h |-> h, type |-> effect_id, step |-> 0,
          wk |-> k_work_schedule(wk, "effect", 0), level |-> -1]

(* start_identify_effect: the pending step is cancelled, the script starts
   at step 0; Stop and FinishEffect restore at once *)
start_identify_effect(h, wk, effect_id, on, level, pwm_ok) ==
    LET wk1 == k_work_cancel_delayable(wk, "effect")
    IN  IF effect_id = EFFECT_ID_STOP \/ effect_id = EFFECT_ID_FINISH_EFFECT
        THEN [h |-> light_set_brightness(h, Steady(on, level), pwm_ok),
              type |-> effect_id, step |-> 0, wk |-> wk1,
              level |-> Steady(on, level)]
        ELSE [h |-> h, type |-> effect_id, step |-> 0,
              wk |-> k_work_schedule(wk1, "effect", 0), level |-> -1]


(***************************************************************************)
(* Battery voltage to percentage                                           *)
(***************************************************************************)
(* variant: two neighbouring points of the table are exchanged *)
lipo_discharge_curve_swapped ==
    << [mv |-> 4200, percent |-> 100], [mv |-> 4150, percent |-> 95],
       [mv |-> 4110, percent |-> 90],  [mv |-> 4080, percent |-> 85],
       [mv |-> 4020, percent |-> 80],  [mv |-> 3980, percent |-> 75],
       [mv |-> 3950, percent |-> 70],  [mv |-> 3910, percent |-> 65],
       [mv |-> 3870, percent |-> 60],  [mv |-> 3840, percent |-> 55],
       [mv |-> 3800, percent |-> 50],  [mv |-> 3760, percent |-> 45],
       [mv |-> 3730, percent |-> 40],  [mv |-> 3690, percent |-> 35],
       [mv |-> 3660, percent |-> 30],  [mv |-> 3620, percent |-> 25],
       [mv |-> 3580, percent |-> 20],  [mv |-> 3450, percent |-> 10],
       [mv |-> 3500, percent |-> 15],  [mv |-> 3300, percent |-> 5],
       [mv |-> 3000, percent |-> 0] >>

lipo_discharge_curve ==
    << [mv |-> 4200, percent |-> 100], [mv |-> 4150, percent |-> 95],
       [mv |-> 4110, percent |-> 90],  [mv |-> 4080, percent |-> 85],
       [mv |-> 4020, percent |-> 80],  [mv |-> 3980, percent |-> 75],
       [mv |-> 3950, percent |-> 70],  [mv |-> 3910, percent |-> 65],
       [mv |-> 3870, percent |-> 60],  [mv |-> 3840, percent |-> 55],
       [mv |-> 3800, percent |-> 50],  [mv |-> 3760, percent |-> 45],
       [mv |-> 3730, percent |-> 40],  [mv |-> 3690, percent |-> 35],
       [mv |-> 3660, percent |-> 30],  [mv |-> 3620, percent |-> 25],
       [mv |-> 3580, percent |-> 20],  [mv |-> 3500, percent |-> 15],
       [mv |-> 3450, percent |-> 10],  [mv |-> 3300, percent |-> 5],
       [mv |-> 3000, percent |-> 0] >>

BATTERY_CURVE_SIZE == Len(lipo_discharge_curve)

(* variant: the interpolated quotient is rounded up *)
RECURSIVE battery_interpolate_round_up(_, _)
battery_interpolate_round_up(mv, i) ==
    IF i >= Len(lipo_discharge_curve) - 1 THEN 0
    ELSE IF mv >= lipo_discharge_curve[i + 2].mv
    THEN LET v_high == lipo_discharge_curve[i + 1].mv
             v_low == lipo_discharge_curve[i + 2].mv
             p_high == lipo_discharge_curve[i + 1].percent
             p_low == lipo_discharge_curve[i + 2].percent
             v_range == U16(v_high - v_low)
             p_range == U8(p_high - p_low)
         IN  U8(p_low + CDiv((mv - v_low) * p_range + v_range - 1, v_range))
    ELSE battery_interpolate_round_up(mv, i + 1)

(* the interpolation loop from 0-based index i on *)
RECURSIVE battery_interpolate(_, _)
battery_interpolate(mv, i) ==
    IF i >= BATTERY_CURVE_SIZE - 1 THEN 0
    ELSE IF mv >= lipo_discharge_curve[i + 2].mv
    THEN LET v_high == lipo_discharge_curve[i + 1].mv
             v_low == lipo_discharge_curve[i + 2].mv
             p_high == lipo_discharge_curve[i + 1].percent
             p_low == lipo_discharge_curve[i + 2].percent
             v_range == U16(v_high - v_low)
             p_range == U8(p_high - p_low)
         IN  U8(p_low + CDiv((mv - v_low) * p_range, v_range))
    ELSE battery_interpolate(mv, i + 1)

(* variant: no clamp above the top of the curve *)
battery_mv_to_percent_no_clamp(mv) ==
    IF mv <= lipo_discharge_curve[BATTERY_CURVE_SIZE].mv THEN 0
    ELSE battery_interpolate(mv, 0)

battery_mv_to_percent(mv) ==
    IF mv >= lipo_discharge_curve[1].mv THEN 100
    ELSE IF mv <= lipo_discharge_curve[BATTERY_CURVE_SIZE].mv THEN 0
    ELSE battery_interpolate(mv, 0)

(***************************************************************************)
(* Attribute commands and toggle                                           *)
(***************************************************************************)
(* fade time of a toggle: the attribute (1/10 s) times 100 in a uint16_t,
   1000 ms when that product is 0 *)
ToggleTransitionMs(tt) ==
    IF U16(tt * 100) = 0 THEN DEFAULT_TRANSITION_MS ELSE U16(tt * 100)

(* variant: last_brightness is not consulted when turning on *)
ToggleTarget_no_last(on, level, last) ==
    IF ~on THEN (IF level > 0 THEN level ELSE FULL_BRIGHTNESS) ELSE 0

(* level a toggle turns on to *)
ToggleTarget(on, level, last) ==
    IF ~on
    THEN LET t == IF level > 0 THEN level ELSE last
         IN  IF t = 0 THEN FULL_BRIGHTNESS ELSE t
    ELSE 0

light_toggle(h, tr, wk, on, level, last, tt, pwm_ok) ==
    LET new_state == ~on
        target_level == ToggleTarget(on, level, last)
        new_level == IF new_state /\ target_level # level
                     THEN target_level ELSE level
        f == light_fade_to(h, tr, wk, target_level, ToggleTransitionMs(tt),
                           pwm_ok)
    IN  [h |-> f.h, tr |-> f.tr, wk |-> f.wk, level |-> f.level,
         on_off |-> new_state, current_level |-> new_level,
         last_brightness |-> IF target_level > 0 THEN target_level ELSE last,
         nvs |-> save_light_state(new_state, new_level)]

level_control_set_value(h, on, last, new_level, pwm_ok) ==
    [h |-> light_set_brightness(h, U8(new_level), pwm_ok),
     current_level |-> U8(new_level),
     last_brightness |-> IF new_level > 0 THEN U8(new_level) ELSE last,
     nvs |-> save_light_state(on, U8(new_level)),
     level |-> U8(new_level)]

on_off_set_value(h, level, on, pwm_ok) ==
    [h |-> light_set_brightness(h, Steady(on, level), pwm_ok),
     on_off |-> on,
     nvs |-> save_light_state(on, level),
     level |-> Steady(on, level)]

(***************************************************************************)
(* Startup                                                                 *)
(***************************************************************************)
(* variant: the resolved state is handed to a fade instead of being written,
   so the output is still where it was when the resolver returns *)
apply_startup_fade(h, on, lvl, su_on_off, su_level, last, pwm_ok) ==
    LET level == CASE su_level = ZB_ZCL_LEVEL_STARTUP_MINIMUM ->
                        ZB_ZCL_LEVEL_CONTROL_LEVEL_MIN_VALUE
                   [] su_level = ZB_ZCL_LEVEL_STARTUP_PREVIOUS -> lvl
                   [] OTHER -> su_level
        on_off_state == CASE su_on_off = ZB_ZCL_ON_OFF_STARTUP_OFF -> FALSE
                          [] su_on_off = ZB_ZCL_ON_OFF_STARTUP_ON -> TRUE
                          [] su_on_off = ZB_ZCL_ON_OFF_STARTUP_TOGGLE -> ~on
                          [] OTHER -> on
    IN  [h |-> h, on_off |-> on_off_state, current_level |-> level,
         last_brightness |-> IF on_off_state THEN level ELSE last,
         level |-> -1]

(* variant: the Toggle policy is not told apart from Previous *)
apply_startup_no_toggle(h, on, lvl, su_on_off, su_level, last, pwm_ok) ==
    LET level == CASE su_level = ZB_ZCL_LEVEL_STARTUP_MINIMUM ->
                        ZB_ZCL_LEVEL_CONTROL_LEVEL_MIN_VALUE
                   [] su_level = ZB_ZCL_LEVEL_STARTUP_PREVIOUS -> lvl
                   [] OTHER -> su_level
        on_off_state == CASE su_on_off = ZB_ZCL_ON_OFF_STARTUP_OFF -> FALSE
                          [] su_on_off = ZB_ZCL_ON_OFF_STARTUP_ON -> TRUE
                          [] OTHER -> on
    IN  [h |-> light_set_brightness(h, Steady(on_off_state, level), pwm_ok),
         on_off |-> on_off_state, current_level |-> level,
         last_brightness |-> IF on_off_state THEN level ELSE last,
         level |-> Steady(on_off_state, level)]

apply_startup_behavior(h, on, lvl, su_on_off, su_level, last, pwm_ok) ==
    LET level == CASE su_level = ZB_ZCL_LEVEL_STARTUP_MINIMUM ->
                        ZB_ZCL_LEVEL_CONTROL_LEVEL_MIN_VALUE
                   [] su_level = ZB_ZCL_LEVEL_STARTUP_PREVIOUS -> lvl
                   [] OTHER -> su_level
        on_off_state == CASE su_on_off = ZB_ZCL_ON_OFF_STARTUP_OFF -> FALSE
                          [] su_on_off = ZB_ZCL_ON_OFF_STARTUP_ON -> TRUE
                          [] su_on_off = ZB_ZCL_ON_OFF_STARTUP_TOGGLE -> ~on
                          [] OTHER -> on
    IN  [h |-> light_set_brightness(h, Steady(on_off_state, level), pwm_ok),
         on_off |-> on_off_state, current_level |-> level,
         last_brightness |-> IF on_off_state THEN level ELSE last,
         level |-> Steady(on_off_state, level)]

(***************************************************************************)
(* History of the last operation                                           *)
(***************************************************************************)
(* op: the operation; arg: its argument; level: the brightness it passed to
   light_set_brightness (-1: it made no such call); ok: the PWM write
   succeeded; rep: the call repeats the previous operation's successful call
   with the same level; same: the call left the actuator state as it was *)
Op(name, arg, level, ok, before, after) ==
    [op |-> name, arg |-> arg, level |-> level, ok |-> ok,
     rep |-> level >= 0 /\ ok /\ last_op.ok /\ last_op.level = level,
     same |-> before = after]

Pending(wk, w) == w \in wk.t \/ w \in Range(wk.q)
TransitionPending == Pending(Work, "transition")
EffectPending == Pending(Work, "effect")

(* a light_fade_to(target, duration_ms) call made with actuator state h,
   transition state tr and work state wk: the brightness it starts from,
   whether it schedules ticks, and whether a fade was in progress *)
FadeReq(h, tr, wk, target, duration_ms) ==
    [start |-> h.current_brightness, target |-> target,
     duration |-> duration_ms, old_target |-> tr.target,
     scheduled |-> ~(duration_ms = 0 \/ h.current_brightness = target),
     interrupting |-> Pending(wk, "transition")]

(***************************************************************************)
(* Initial state: static storage before main() runs                        *)
(***************************************************************************)
(* contents of the settings store at power-on; -1: the key was never saved *)
NvsStates == [on_off : {-1, 0, 1}, level : {-1, 128}]

InitLight ==
    /\ hw = [current_brightness |-> 0, light_is_on |-> FALSE,
             polarity_phase |-> FALSE, ain1 |-> 0, ain2 |-> 0, standby |-> 0,
             polarity_timer |-> FALSE, pwm_pulse |-> 0]
    /\ on_off = FALSE
    /\ current_level = 0
    /\ on_off_transition_time = 0
    /\ start_up_on_off = 0
    /\ start_up_current_level = 0
    /\ last_brightness = DEFAULT_LAST_BRIGHTNESS
    /\ transition_start = 0
    /\ transition_target = 0
    /\ transition_elapsed = 0
    /\ transition_duration = 0
    /\ effect_type = 0
    /\ effect_step = 0

InitRest ==
    /\ booted = FALSE
    /\ workq = << >>
    /\ timers = {}
    /\ button_pin = FALSE
    /\ app_pressed = FALSE
    /\ press_age = 0
    /\ hold_age = 0
    /\ ep = [started |-> FALSE, short |-> 0, long |-> 0]
    /\ percent = -1
    /\ cmds = 0
    /\ pwm_failures = 0
    /\ last_op = [op |-> "none", arg |-> 0, level |-> -1, ok |-> TRUE,
                  rep |-> FALSE, same |-> TRUE]
    /\ fade_req = [start |-> 0, target |-> 0, duration |-> 0,
                   old_target |-> 0, scheduled |-> FALSE,
                   interrupting |-> FALSE]
    /\ blink = "none"

(* peripherals every device_is_ready() check can see *)
Devices == {"pwm", "ain1", "ain2", "standby", "button", "adc", "status_led"}

(* static storage of the boot, battery and indicator state *)
InitSys ==
    /\ main_ret = "none"
    /\ stages = << >>
    /\ joined = FALSE
    /\ status_led = 0
    /\ battery_work_init = FALSE
    /\ battery_voltage = 0
    /\ battery_percentage = 0
    /\ adc_attempted = FALSE
    /\ battery_started = FALSE
    /\ fault = "none"
    /\ lp_left = 0
    /\ off_pc = 0
    /\ param = [device_cb_id |-> "none", cluster_id |-> 0, status |-> "none"]

Init ==
    /\ InitLight
    /\ InitRest
    /\ InitSys
    /\ dev_ready = [d \in Devices |-> TRUE]
    /\ settings_err = [subsys_init |-> 0, load |-> 0]
    /\ nvs \in NvsStates
    /\ voltage_mv = 0

(* outcomes pwm_set_pulse_dt may have: failures are bounded per run *)
PwmOutcomes == IF pwm_failures < MaxPwmFailures THEN BOOLEAN ELSE {TRUE}

(* a handler that called light_set_brightness(level) (level >= 0) with PWM
   outcome ok; a handler that made no call has no outcome to choose *)
PwmCall(level, ok) ==
    /\ level >= 0 \/ ok
    /\ pwm_failures' = IF ok THEN pwm_failures ELSE pwm_failures + 1

(***************************************************************************)
(* main(): hardware_init, clusters_attr_init, settings_load,               *)
(* apply_startup_behavior                                                  *)
(***************************************************************************)
(* variant: the button is not checked *)
hardware_init_no_button(ready) ==
    IF ~ready["pwm"] THEN "-ENODEV"
    ELSE IF ~ready["ain1"] \/ ~ready["ain2"] \/ ~ready["standby"]
         THEN "-ENODEV"
    ELSE "0"

(* hardware_init's return value from the readiness of the devices: the PWM
   check, tb6612_init and button_init end it with -ENODEV; a battery_init
   failure does not *)
hardware_init(ready) ==
    IF ~ready["pwm"] THEN "-ENODEV"
    ELSE IF ~ready["ain1"] \/ ~ready["ain2"] \/ ~ready["standby"]
         THEN "-ENODEV"
    ELSE IF ~ready["button"] THEN "-ENODEV"
    ELSE "0"

(* error codes of the settings store: none or -EIO *)
SettingsErrors == [subsys_init : {0, -5}, load : {0, -5}]

(* variant: a failed load has still restored the stored on/off *)
settings_load_partial(err, store, on, lvl) ==
    [on_off |-> IF store.on_off >= 0 THEN store.on_off # 0 ELSE on,
     current_level |-> IF err.subsys_init = 0 /\ err.load = 0
                            /\ store.level >= 0
                       THEN store.level ELSE lvl]

(* variant: the "level" key is not restored *)
settings_load_no_level(err, store, on, lvl) ==
    IF err.subsys_init # 0 \/ err.load # 0
    THEN [on_off |-> on, current_level |-> lvl]
    ELSE [on_off |-> IF store.on_off >= 0 THEN store.on_off # 0 ELSE on,
          current_level |-> lvl]

(* settings_load over the attributes clusters_attr_init has set: the "light"
   handler overwrites on_off and current_level with the stored keys; a store
   that failed to initialise or to load calls it for none *)
settings_load(err, store, on, lvl) ==
    IF err.subsys_init # 0 \/ err.load # 0
    THEN [on_off |-> on, current_level |-> lvl]
    ELSE [on_off |-> IF store.on_off >= 0 THEN store.on_off # 0 ELSE on,
          current_level |-> IF store.level >= 0 THEN store.level ELSE lvl]

Main ==
    /\ ~booted /\ main_ret = "none"
    /\ IF hardware_init(dev_ready) # "0"
       THEN /\ main_ret' = hardware_init(dev_ready)
            /\ UNCHANGED <<booted, hw, on_off, current_level,
                           on_off_transition_time, start_up_on_off,
                           start_up_current_level, last_brightness, stages,
                           battery_work_init, counters, last_op>>
       ELSE /\ \E ok0 \in {TRUE}, ok1 \in PwmOutcomes :
                 LET h0 == light_set_brightness(hw, 0, ok0)
                     loaded == settings_load(settings_err, nvs, FALSE,
                                   ZB_ZCL_LEVEL_CONTROL_LEVEL_MAX_VALUE)
                     on == loaded.on_off
                     lvl == loaded.current_level
                     s == apply_startup_behavior(h0, on, lvl,
                              ZB_ZCL_ON_OFF_STARTUP_PREVIOUS,
                              ZB_ZCL_LEVEL_STARTUP_PREVIOUS, last_brightness,
                              ok1)
                 IN  /\ hw' = s.h
                     /\ on_off' = s.on_off
                     /\ current_level' = s.current_level
                     /\ last_brightness' = s.last_brightness
                     /\ last_op' = Op("main", 0, s.level, ok1, h0, s.h)
                     /\ PwmCall(s.level, ok1)
            /\ on_off_transition_time' = DEFAULT_ON_OFF_TRANSITION_TIME
            /\ start_up_on_off' = ZB_ZCL_ON_OFF_STARTUP_PREVIOUS
            /\ start_up_current_level' = ZB_ZCL_LEVEL_STARTUP_PREVIOUS
            /\ booted' = TRUE
            /\ main_ret' = "loop"
            /\ stages' = <<"hardware_init", "settings_subsys_init",
                           "clusters_attr_init", "settings_load",
                           "apply_startup_behavior", "zigbee_enable">>
            /\ battery_work_init' = dev_ready["adc"]
            /\ UNCHANGED cmds
    /\ UNCHANGED <<nvs, transition_start, transition_target,
                   transition_elapsed, transition_duration, effect_type,
                   effect_step, workVars, buttonVars, batteryVars, ghostVars,
                   dev_ready, settings_err, joined, status_led,
                   battery_voltage,
                   battery_percentage, adc_attempted, battery_started, fault,
                   lp_left, off_pc, param>>

(***************************************************************************)
(* zcl_device_cb: commands from the attribute bridge                       *)
(***************************************************************************)
trVars == <<transition_start, transition_target, transition_elapsed,
            transition_duration>>

SetTransition(tr) ==
    /\ transition_start' = tr.start
    /\ transition_target' = tr.target
    /\ transition_elapsed' = tr.elapsed
    /\ transition_duration' = tr.duration

SetWork(wk) ==
    /\ workq' = wk.q
    /\ timers' = wk.t

(* variant: a write to any other cluster is taken for a level write *)
zcl_device_cb_else_level(device_cb_id, cluster_id) ==
    CASE device_cb_id = "ZB_ZCL_LEVEL_CONTROL_SET_VALUE_CB_ID" ->
            [call |-> "level_control_set_value", status |-> "RET_OK"]
      [] device_cb_id = "ZB_ZCL_SET_ATTR_VALUE_CB_ID" ->
            IF cluster_id = ZB_ZCL_CLUSTER_ID_ON_OFF
            THEN [call |-> "on_off_set_value", status |-> "RET_OK"]
            ELSE [call |-> "level_control_set_value", status |-> "RET_OK"]
      [] device_cb_id = "ZB_ZCL_IDENTIFY_EFFECT_CB_ID" ->
            [call |-> "start_identify_effect", status |-> "RET_OK"]
      [] OTHER -> [call |-> "none", status |-> "RET_NOT_IMPLEMENTED"]

(* zcl_device_cb's dispatch: the function it calls for a callback id and
   cluster id, and the status it leaves in the parameter *)
zcl_device_cb(device_cb_id, cluster_id) ==
    CASE device_cb_id = "ZB_ZCL_LEVEL_CONTROL_SET_VALUE_CB_ID" ->
            [call |-> "level_control_set_value", status |-> "RET_OK"]
      [] device_cb_id = "ZB_ZCL_SET_ATTR_VALUE_CB_ID" ->
            IF cluster_id = ZB_ZCL_CLUSTER_ID_ON_OFF
            THEN [call |-> "on_off_set_value", status |-> "RET_OK"]
            ELSE IF cluster_id = ZB_ZCL_CLUSTER_ID_LEVEL_CONTROL
            THEN [call |-> "level_control_set_value", status |-> "RET_OK"]
            ELSE [call |-> "none", status |-> "RET_NOT_IMPLEMENTED"]
      [] device_cb_id = "ZB_ZCL_IDENTIFY_EFFECT_CB_ID" ->
            [call |-> "start_identify_effect", status |-> "RET_OK"]
      [] OTHER -> [call |-> "none", status |-> "RET_NOT_IMPLEMENTED"]

(* callback ids the stack delivers; the last one has no case in the switch *)
DeviceCbIds ==
    {"ZB_ZCL_LEVEL_CONTROL_SET_VALUE_CB_ID", "ZB_ZCL_SET_ATTR_VALUE_CB_ID",
     "ZB_ZCL_IDENTIFY_EFFECT_CB_ID", "ZB_ZCL_IDENTIFY_CB_ID"}

(* cluster ids of attribute writes: On/Off, Level Control, Identify (3) and
   Color Control (768) *)
ClusterIds ==
    {ZB_ZCL_CLUSTER_ID_ON_OFF, ZB_ZCL_CLUSTER_ID_LEVEL_CONTROL, 3, 768}

(* the callback arrives with some callback id and cluster id for which
   zcl_device_cb calls the given function; the cluster id is only read for
   attribute writes *)
ZclParam(call) ==
    \E device_cb_id \in DeviceCbIds :
        \E cluster_id \in (IF device_cb_id = "ZB_ZCL_SET_ATTR_VALUE_CB_ID"
                            THEN ClusterIds ELSE {0}) :
            /\ zcl_device_cb(device_cb_id, cluster_id).call = call
            /\ param' = [device_cb_id |-> device_cb_id,
                         cluster_id |-> cluster_id,
                         status |->
                             zcl_device_cb(device_cb_id, cluster_id).status]

LevelControlSetValue ==
    /\ booted /\ cmds < MaxCmds
    /\ \E new_level \in SetLevels, ok \in PwmOutcomes :
         LET s == level_control_set_value(hw, on_off, last_brightness,
                                          new_level, ok)
         IN  /\ hw' = s.h
             /\ current_level' = s.current_level
             /\ last_brightness' = s.last_brightness
             /\ nvs' = s.nvs
             /\ last_op' = Op("set_level", new_level, s.level, ok, hw, s.h)
             /\ PwmCall(s.level, ok)
    /\ cmds' = cmds + 1
    /\ ZclParam("level_control_set_value")
    /\ blink' = "none"
    /\ UNCHANGED <<booted, on_off, on_off_transition_time, start_up_on_off,
                   start_up_current_level, trVars, effect_type, effect_step,
                   workVars, buttonVars, batteryVars, sysRest, fade_req>>

OnOffSetValue ==
    /\ booted /\ cmds < MaxCmds
    /\ \E on \in BOOLEAN, ok \in PwmOutcomes :
         LET s == on_off_set_value(hw, current_level, on, ok)
         IN  /\ hw' = s.h
             /\ on_off' = s.on_off
             /\ nvs' = s.nvs
             /\ last_op' = Op("set_on_off", IF on THEN 1 ELSE 0, s.level, ok,
                              hw, s.h)
             /\ PwmCall(s.level, ok)
    /\ cmds' = cmds + 1
    /\ ZclParam("on_off_set_value")
    /\ blink' = "none"
    /\ UNCHANGED <<booted, current_level, on_off_transition_time,
                   start_up_on_off, start_up_current_level, last_brightness,
                   trVars, effect_type, effect_step, workVars, buttonVars,
                   batteryVars, sysRest, fade_req>>

StartIdentifyEffectOf(ids) ==
    /\ booted /\ cmds < MaxCmds
    /\ \E effect_id \in ids, ok \in PwmOutcomes :
         LET s == start_identify_effect(hw, Work, effect_id, on_off,
                                        current_level, ok)
         IN  /\ hw' = s.h
             /\ effect_type' = s.type
             /\ effect_step' = s.step
             /\ SetWork(s.wk)
             /\ last_op' = Op("identify", effect_id, s.level, ok, hw, s.h)
             /\ blink' = IF effect_id = EFFECT_ID_BLINK /\ TransitionPending
                         THEN "midfade" ELSE "none"
             /\ PwmCall(s.level, ok)
    /\ cmds' = cmds + 1
    /\ ZclParam("start_identify_effect")
    /\ UNCHANGED <<booted, on_off, current_level, on_off_transition_time,
                   start_up_on_off, start_up_current_level, last_brightness,
                   nvs, trVars, buttonVars, batteryVars, sysRest, fade_req>>

(* zcl_device_cb called with a callback it has no handler for *)
ZclNotImplemented ==
    /\ booted /\ cmds < MaxCmds
    /\ ZclParam("none")
    /\ cmds' = cmds + 1
    /\ UNCHANGED <<booted, lightVars, workVars, buttonVars, batteryVars,
                   sysRest, pwm_failures, last_op, ghostVars>>

StartIdentifyEffect == StartIdentifyEffectOf(EffectIds)

(* any of the effects, Breathe included *)
StartAnyIdentifyEffect == StartIdentifyEffectOf(AllEffectIds)

(* the coordinator writes the on_off_transition_time attribute *)
WriteTransitionTime ==
    /\ booted /\ cmds < MaxCmds
    /\ \E tt \in TransitionTimes :
         /\ on_off_transition_time' = tt
         /\ last_op' = Op("write_transition_time", tt, -1, TRUE, hw, hw)
    /\ cmds' = cmds + 1
    /\ UNCHANGED pwm_failures
    /\ UNCHANGED <<booted, hw, on_off, current_level, start_up_on_off,
                   start_up_current_level, last_brightness, nvs, trVars,
                   effect_type, effect_step, workVars, buttonVars,
                   batteryVars, sysVars, ghostVars>>

(***************************************************************************)
(* Timers and work handlers                                                *)
(***************************************************************************)
(* the timeout of a scheduled fade tick expires *)
ExpireTransition ==
    /\ "transition" \in timers
    /\ timers' = timers \ {"transition"}
    /\ workq' = Append(workq, "transition")
    /\ UNCHANGED <<booted, lightVars, buttonVars, batteryVars, sysVars, counters, last_op, ghostVars>>

(* the timeout of a scheduled effect step expires *)
ExpireEffect ==
    /\ "effect" \in timers
    /\ timers' = timers \ {"effect"}
    /\ workq' = Append(workq, "effect")
    /\ UNCHANGED <<booted, lightVars, buttonVars, batteryVars, sysVars, counters, last_op, ghostVars>>

TransitionWork ==
    /\ workq # << >> /\ Head(workq) = "transition"
    /\ \E ok \in PwmOutcomes :
         LET s == transition_work_handler(hw, Transition, Running, ok)
         IN  /\ hw' = s.h
             /\ SetTransition(s.tr)
             /\ SetWork(s.wk)
             /\ last_op' = Op("transition", 0, s.level, ok, hw, s.h)
             /\ PwmCall(s.level, ok)
    /\ UNCHANGED <<booted, on_off, current_level, on_off_transition_time,
                   start_up_on_off, start_up_current_level, last_brightness,
                   nvs, effect_type, effect_step, buttonVars, batteryVars, sysVars,
                   cmds, ghostVars>>

EffectWork ==
    /\ workq # << >> /\ Head(workq) = "effect"
    /\ \E ok \in PwmOutcomes :
         LET s == effect_work_handler(hw, effect_type, effect_step, Running,
                                      on_off, current_level, ok)
         IN  /\ hw' = s.h
             /\ effect_type' = s.type
             /\ effect_step' = s.step
             /\ SetWork(s.wk)
             /\ last_op' = Op("effect", effect_type, s.level, ok, hw, s.h)
             /\ blink' = IF blink = "midfade" /\ ~Pending(s.wk, "effect")
                         THEN "restored" ELSE blink
             /\ PwmCall(s.level, ok)
    /\ UNCHANGED <<booted, on_off, current_level, on_off_transition_time,
                   start_up_on_off, start_up_current_level, last_brightness,
                   nvs, trVars, buttonVars, batteryVars, sysVars, cmds, fade_req>>

(* the polarity alternation timer fires *)
PolarityTimer ==
    /\ hw.polarity_timer
    /\ hw' = polarity_timer_handler(hw)
    /\ UNCHANGED <<booted, on_off, current_level, on_off_transition_time,
                   start_up_on_off, start_up_current_level, last_brightness,
                   nvs, trVars, effect_type, effect_step, workVars,
                   buttonVars, batteryVars, sysVars, counters, last_op, ghostVars>>


(***************************************************************************)
(* Button                                                                  *)
(***************************************************************************)
(* what one run of button_work_handler does, from the pin level it reads,
   app_state.pressed and the time since app_state.press_time (ms) *)
button_work_handler(pin, pressed, duration) ==
    IF pin /\ ~pressed THEN "press"
    ELSE IF ~pin /\ pressed
         THEN IF duration < BUTTON_LONG_PRESS_MS THEN "short" ELSE "release"
         ELSE "none"

(* long_press_work_handler acts only while the button is still recorded
   as pressed *)
long_press_work_handler(pressed) == pressed

Count(n) == Min(n + 1, MaxCount)

(* an edge on the button pin: button_gpio_handler submits button_work *)
ButtonEdge ==
    /\ booted
    /\ button_pin' = ~button_pin
    /\ SetWork(k_work_submit(Work, "button"))
    /\ IF ~button_pin
       THEN /\ cmds < MaxCmds
            /\ cmds' = cmds + 1
            /\ hold_age' = 0
            /\ ep' = [started |-> TRUE, short |-> 0, long |-> 0]
       ELSE UNCHANGED <<hold_age, ep, cmds>>
    /\ UNCHANGED <<booted, lightVars, app_pressed, press_age, batteryVars, sysVars,
                   pwm_failures, last_op, ghostVars>>

ButtonWork ==
    /\ workq # << >> /\ Head(workq) = "button"
    /\ LET ev == button_work_handler(button_pin, app_pressed,
                                     press_age * TickMs)
       IN  CASE ev = "press" ->
                  /\ app_pressed' = TRUE
                  /\ press_age' = 0
                  /\ SetWork(k_work_schedule(Running, "long_press",
                                             BUTTON_LONG_PRESS_MS))
                  /\ last_op' = Op("button_press", 0, -1, TRUE, hw, hw)
                  /\ UNCHANGED <<lightVars, ep, pwm_failures, ghostVars>>
             [] ev = "short" ->
                  /\ app_pressed' = FALSE
                  /\ press_age' = 0
                  /\ ep' = [ep EXCEPT !.short = Count(@)]
                  /\ blink' = "none"
                  /\ fade_req' = FadeReq(hw, Transition, Running,
                                     ToggleTarget(on_off, current_level,
                                                  last_brightness),
                                     ToggleTransitionMs(on_off_transition_time))
                  /\ \E ok \in PwmOutcomes :
                       LET s == light_toggle(hw, Transition,
                                    k_work_cancel_delayable(Running,
                                                            "long_press"),
                                    on_off, current_level, last_brightness,
                                    on_off_transition_time, ok)
                       IN  /\ hw' = s.h
                           /\ SetTransition(s.tr)
                           /\ SetWork(s.wk)
                           /\ on_off' = s.on_off
                           /\ current_level' = s.current_level
                           /\ last_brightness' = s.last_brightness
                           /\ nvs' = s.nvs
                           /\ last_op' = Op("toggle", 0, s.level, ok, hw, s.h)
                           /\ PwmCall(s.level, ok)
                  /\ UNCHANGED <<on_off_transition_time, start_up_on_off,
                                 start_up_current_level, effect_type,
                                 effect_step>>
             [] ev = "release" ->
                  /\ app_pressed' = FALSE
                  /\ press_age' = 0
                  /\ SetWork(k_work_cancel_delayable(Running, "long_press"))
                  /\ last_op' = Op("button_release", 0, -1, TRUE, hw, hw)
                  /\ UNCHANGED <<lightVars, ep, pwm_failures, ghostVars>>
             [] OTHER ->
                  /\ SetWork(Running)
                  /\ last_op' = Op("button_none", 0, -1, TRUE, hw, hw)
                  /\ UNCHANGED <<lightVars, app_pressed, press_age, ep,
                                 pwm_failures, ghostVars>>
    /\ UNCHANGED <<booted, button_pin, hold_age, batteryVars, sysVars, cmds>>

(* long_press_work_handler up to its first k_msleep: the first toggle of
   the status LED is done and LONG_PRESS_BLINKS sleeps are ahead; the work
   item stays at the head of the queue while the handler runs *)
LongPressWork ==
    /\ workq # << >> /\ Head(workq) = "long_press" /\ lp_left = 0
    /\ IF long_press_work_handler(app_pressed)
       THEN /\ ep' = [ep EXCEPT !.long = Count(@)]
            /\ last_op' = Op("factory_reset", 0, -1, TRUE, hw, hw)
            /\ status_led' = 1 - status_led
            /\ lp_left' = LONG_PRESS_BLINKS
            /\ UNCHANGED workVars
       ELSE /\ last_op' = Op("long_press_none", 0, -1, TRUE, hw, hw)
            /\ SetWork(Running)
            /\ UNCHANGED <<ep, status_led, lp_left>>
    /\ UNCHANGED <<booted, lightVars, button_pin, app_pressed, press_age,
                   hold_age, batteryVars, counters, ghostVars, dev_ready,
                   settings_err,
                   main_ret, stages, joined, battery_work_init,
                   battery_voltage, battery_percentage, adc_attempted,
                   battery_started, fault, off_pc, param>>

(* long_press_work_handler wakes from a k_msleep: it toggles the status LED
   again, or returns after the last sleep *)
LongPressSleep ==
    /\ workq # << >> /\ Head(workq) = "long_press" /\ lp_left > 0
    /\ lp_left' = lp_left - 1
    /\ IF lp_left > 1
       THEN /\ status_led' = 1 - status_led
            /\ UNCHANGED workVars
       ELSE /\ SetWork(Running)
            /\ UNCHANGED status_led
    /\ UNCHANGED <<booted, lightVars, buttonVars, batteryVars, counters,
                   last_op, ghostVars, dev_ready, settings_err, main_ret,
                   stages, joined,
                   battery_work_init, battery_voltage, battery_percentage,
                   adc_attempted, battery_started, fault, off_pc, param>>

(* the clock advances by one tick once the work queue has drained; the
   long-press timeout expires BUTTON_LONG_PRESS_MS after it was scheduled *)
Tick ==
    /\ booted /\ workq = << >>
    /\ (button_pin /\ hold_age < MaxAge) \/ (app_pressed /\ press_age < MaxAge)
    /\ hold_age' = IF button_pin THEN Min(hold_age + 1, MaxAge) ELSE hold_age
    /\ press_age' = IF app_pressed THEN Min(press_age + 1, MaxAge)
                    ELSE press_age
    /\ IF "long_press" \in timers /\ press_age' * TickMs >= BUTTON_LONG_PRESS_MS
       THEN /\ timers' = timers \ {"long_press"}
            /\ workq' = <<"long_press">>
       ELSE UNCHANGED workVars
    /\ UNCHANGED <<booted, lightVars, button_pin, app_pressed, ep,
                   batteryVars, sysVars, counters, last_op, ghostVars>>

(***************************************************************************)
(* Status LED, battery reporting and stack signals                         *)
(***************************************************************************)
(* update_status_led: off and no blink work when joined, else a blink step
   queued at once unless one is pending *)
update_status_led(ready, j, led, wk) ==
    IF ~ready THEN [led |-> led, wk |-> wk]
    ELSE IF j
         THEN [led |-> 0, wk |-> k_work_cancel_delayable(wk, "status_led")]
         ELSE [led |-> led,
               wk |-> IF Pending(wk, "status_led") THEN wk
                      ELSE k_work_schedule(wk, "status_led", 0)]

(* variant: the blink step toggles the LED when joined, too *)
status_led_work_handler_toggle(ready, j, led, wk) ==
    IF ~ready THEN [led |-> led, wk |-> wk]
    ELSE IF j THEN [led |-> 1 - led, wk |-> wk]
         ELSE [led |-> 1 - led, wk |-> k_work_schedule(wk, "status_led", 500)]

(* one run of status_led_work_handler *)
status_led_work_handler(ready, j, led, wk) ==
    IF ~ready THEN [led |-> led, wk |-> wk]
    ELSE IF j THEN [led |-> 0, wk |-> wk]
         ELSE [led |-> 1 - led, wk |-> k_work_schedule(wk, "status_led", 500)]

(* outcomes of adc_channel_setup and adc_read: a failure or a sample of
   the 12-bit single-ended conversion the sequence asks for (865, 956 and
   4095 read as 3801, 4201 and 17995 mV) *)
AdcOutcomes ==
    {[ok |-> FALSE, sample |-> 0]}
        \cup {[ok |-> TRUE, sample |-> x] : x \in {0, 865, 956, 4095}}

(* battery_measure_mv: 0 without a device or after a failed ADC call, else
   (uint32_t)sample * 18000U / 4096U stored in a uint16_t; a negative
   int16_t sample s converts to 2^32 + s, the product wraps to
   2^32 - 18000 * (-s), and its quotient by 4096 is 2^20 less the quotient
   of 18000 * (-s) rounded up *)
battery_measure_mv(adc_dev, m) ==
    IF ~adc_dev \/ ~m.ok THEN 0
    ELSE IF m.sample >= 0 THEN U16((m.sample * 18000) \div 4096)
    ELSE U16(1048576 - (((-m.sample) * 18000 + 4095) \div 4096))

(* battery_update_and_report without the early return on a measurement
   of 0 *)
battery_update_no_skip(adc_dev, m, zb_joined, voltage, percentage) ==
    LET mv == battery_measure_mv(adc_dev, m)
    IN  [voltage_mv |-> mv, percent |-> battery_mv_to_percent(mv),
         voltage |-> U8(mv \div 100),
         percentage |-> U8(battery_mv_to_percent(mv) * 2),
         report |-> zb_joined]

(* battery_update_and_report: a measurement of 0 changes nothing and
   reports nothing; otherwise the attributes are written, and handed to
   ZB_ZCL_SET_ATTRIBUTE when ZB_JOINED(). percent is -1 while the local
   has not been assigned *)
battery_update_and_report(adc_dev, m, zb_joined, voltage, percentage) ==
    LET mv == battery_measure_mv(adc_dev, m)
    IN  IF mv = 0
        THEN [voltage_mv |-> 0, percent |-> -1, voltage |-> voltage,
              percentage |-> percentage, report |-> FALSE]
        ELSE [voltage_mv |-> mv, percent |-> battery_mv_to_percent(mv),
              voltage |-> U8(mv \div 100),
              percentage |-> U8(battery_mv_to_percent(mv) * 2),
              report |-> zb_joined]

(* signal types the handler tells apart *)
SignalTypes ==
    {"ZB_BDB_SIGNAL_DEVICE_FIRST_START", "ZB_BDB_SIGNAL_DEVICE_REBOOT",
     "ZB_BDB_SIGNAL_STEERING"}

(* the battery attributes after battery_update_and_report; adc_dev is set
   by battery_init before it looks at the device *)
BatteryUpdate(m, zb_joined, name) ==
    LET b == battery_update_and_report("hardware_init" \in Range(stages), m,
                                       zb_joined, battery_voltage,
                                       battery_percentage)
    IN  /\ battery_voltage' = b.voltage
        /\ battery_percentage' = b.percentage
        /\ voltage_mv' = b.voltage_mv
        /\ percent' = b.percent
        /\ adc_attempted' = (adc_attempted \/ "hardware_init" \in Range(stages))
        /\ last_op' = Op(name, IF b.report THEN b.voltage ELSE -1, -1, TRUE,
                         hw, hw)

(* zboss_signal_handler for a signal of the stack, which has joined or left
   the network by the time it delivers the signal *)
ZbossSignal ==
    /\ booted /\ "zigbee_enable" \in Range(stages)
    /\ \E j \in BOOLEAN, sig_type \in SignalTypes, status_ok \in BOOLEAN :
         LET u == update_status_led(dev_ready["status_led"], j, status_led,
                                    Work)
         IN  /\ joined' = j
             /\ status_led' = u.led
             /\ IF /\ sig_type \in {"ZB_BDB_SIGNAL_DEVICE_FIRST_START",
                                     "ZB_BDB_SIGNAL_DEVICE_REBOOT"}
                   /\ status_ok
                THEN /\ \E m \in AdcOutcomes :
                            BatteryUpdate(m, j, "battery_start_reporting")
                     /\ SetWork(k_work_schedule(u.wk, "battery",
                                    BATTERY_REPORT_INTERVAL_SEC * 1000))
                     /\ battery_started' = TRUE
                ELSE /\ SetWork(u.wk)
                     /\ last_op' = Op("zboss_signal", IF j THEN 1 ELSE 0,
                                      -1, TRUE, hw, hw)
                     /\ UNCHANGED <<battery_voltage, battery_percentage,
                                    adc_attempted, battery_started,
                                    batteryVars>>
    /\ UNCHANGED <<booted, lightVars, buttonVars, counters,
                   ghostVars, dev_ready, settings_err, main_ret, stages,
                   battery_work_init,
                   fault, lp_left, off_pc, param>>

(* the timeout of a scheduled blink step expires *)
ExpireStatusLed ==
    /\ "status_led" \in timers
    /\ timers' = timers \ {"status_led"}
    /\ workq' = Append(workq, "status_led")
    /\ UNCHANGED <<booted, lightVars, buttonVars, batteryVars, sysVars,
                   counters, last_op, ghostVars>>

StatusLedWork ==
    /\ workq # << >> /\ Head(workq) = "status_led"
    /\ LET r == status_led_work_handler(dev_ready["status_led"], joined,
                                        status_led, Running)
       IN  /\ status_led' = r.led
           /\ SetWork(r.wk)
    /\ last_op' = Op("status_led", 0, -1, TRUE, hw, hw)
    /\ UNCHANGED <<booted, lightVars, buttonVars, batteryVars, counters,
                   ghostVars, dev_ready, settings_err, main_ret, stages,
                   joined,
                   battery_work_init, battery_voltage, battery_percentage,
                   adc_attempted, battery_started, fault, lp_left, off_pc,
                   param>>

(* the timeout of the scheduled battery cycle expires *)
ExpireBattery ==
    /\ "battery" \in timers
    /\ timers' = timers \ {"battery"}
    /\ workq' = Append(workq, "battery")
    /\ UNCHANGED <<booted, lightVars, buttonVars, batteryVars, sysVars,
                   counters, last_op, ghostVars>>

(* the work queue takes battery_work: battery_work_handler runs if
   battery_init got as far as k_work_init_delayable; if not, the queue calls
   the null handler of a work item that was never initialised, and the
   fatal error halts or reboots the system, which ends the session *)
BatteryWork ==
    /\ workq # << >> /\ Head(workq) = "battery"
    /\ IF battery_work_init
       THEN /\ \E m \in AdcOutcomes :
                   BatteryUpdate(m, joined, "battery_work_handler")
            /\ SetWork(k_work_schedule(Running, "battery",
                                        BATTERY_REPORT_INTERVAL_SEC * 1000))
            /\ UNCHANGED <<booted, fault>>
       ELSE /\ fault' \in {"halt", "reboot"}
            /\ booted' = FALSE
            /\ workq' = << >>
            /\ timers' = {}
            /\ last_op' = Op("fault", 0, -1, TRUE, hw, hw)
            /\ UNCHANGED <<battery_voltage, battery_percentage,
                           adc_attempted, batteryVars>>
    /\ UNCHANGED <<lightVars, buttonVars, counters, ghostVars,
                   dev_ready, settings_err, main_ret, stages, joined,
                   status_led,
                   battery_work_init, battery_started, lp_left, off_pc,
                   param>>

(* the user presses the button and keeps it down *)
HoldButton == ~button_pin /\ ButtonEdge

(* light_set_brightness(0) on a lit string, up to and including the first
   statement of tb6612_off; the polarity timer interrupt can run between
   the statements of tb6612_off *)
Tb6612OffBegin ==
    /\ booted /\ off_pc = 0 /\ hw.light_is_on
    /\ workq = << >>
    /\ hw' = tb6612_off_step([hw EXCEPT !.pwm_pulse = Pulse(0),
                                        !.current_brightness = 0], 0)
    /\ off_pc' = 1
    /\ last_op' = Op("tb6612_off", 0, 0, TRUE, hw, hw')
    /\ UNCHANGED <<booted, on_off, current_level, on_off_transition_time,
                   start_up_on_off, start_up_current_level, last_brightness,
                   nvs, trVars, effect_type, effect_step, workVars,
                   buttonVars, batteryVars, counters, ghostVars,
                   dev_ready, settings_err, main_ret, stages, joined,
                   status_led,
                   battery_work_init, battery_voltage, battery_percentage,
                   adc_attempted, battery_started, fault, lp_left, param>>

(* the next statement of tb6612_off *)
Tb6612OffStep ==
    /\ off_pc > 0
    /\ hw' = tb6612_off_step(hw, off_pc)
    /\ off_pc' = (off_pc + 1) % TB6612_OFF_STATEMENTS
    /\ UNCHANGED <<booted, on_off, current_level, on_off_transition_time,
                   start_up_on_off, start_up_current_level, last_brightness,
                   nvs, trVars, effect_type, effect_step, workVars,
                   buttonVars, batteryVars, counters, last_op, ghostVars,
                   dev_ready, settings_err, main_ret, stages, joined,
                   status_led,
                   battery_work_init, battery_voltage, battery_percentage,
                   adc_attempted, battery_started, fault, lp_left, param>>

(* the polarity timer interrupt taken inside tb6612_off *)
PolarityTimerInOff ==
    /\ off_pc > 0 /\ hw.polarity_timer
    /\ hw' = polarity_timer_handler(hw)
    /\ last_op' = Op("polarity_timer", off_pc, -1, TRUE, hw, hw')
    /\ UNCHANGED <<booted, on_off, current_level, on_off_transition_time,
                   start_up_on_off, start_up_current_level, last_brightness,
                   nvs, trVars, effect_type, effect_step, workVars,
                   buttonVars, batteryVars, sysVars, counters, ghostVars>>

(* a level command handled while no shutdown is in progress *)
LevelCommandWhileSteady == off_pc = 0 /\ LevelControlSetValue

(* apply_startup_behavior applied to the attributes as it finds them *)
ApplyStartupBehavior ==
    /\ ~booted /\ "apply_startup_behavior" \notin Range(stages)
    /\ \E ok \in PwmOutcomes :
         LET s == apply_startup_behavior(hw, on_off, current_level,
                      start_up_on_off, start_up_current_level,
                      last_brightness, ok)
         IN  /\ hw' = s.h
             /\ on_off' = s.on_off
             /\ current_level' = s.current_level
             /\ last_brightness' = s.last_brightness
             /\ last_op' = Op("startup", start_up_on_off, s.level, ok, hw, s.h)
             /\ PwmCall(s.level, ok)
    /\ stages' = Append(stages, "apply_startup_behavior")
    /\ UNCHANGED <<booted, on_off_transition_time, start_up_on_off,
                   start_up_current_level, nvs, trVars, effect_type,
                   effect_step, workVars, buttonVars, batteryVars, cmds,
                   ghostVars, dev_ready, settings_err, main_ret, joined,
                   status_led,
                   battery_work_init, battery_voltage, battery_percentage,
                   adc_attempted, battery_started, fault, lp_left, off_pc,
                   param>>

(* light_fade_to called with a target and a duration *)
FadeTo ==
    /\ booted /\ cmds < MaxCmds
    /\ \E target \in FadeLevels, duration_ms \in FadeDurations,
          ok \in PwmOutcomes :
         LET s == light_fade_to(hw, Transition, Work, target, duration_ms, ok)
         IN  /\ hw' = s.h
             /\ SetTransition(s.tr)
             /\ SetWork(s.wk)
             /\ last_op' = Op("fade_to", target, s.level, ok, hw, s.h)
             /\ fade_req' = FadeReq(hw, Transition, Work, target, duration_ms)
             /\ PwmCall(s.level, ok)
    /\ cmds' = cmds + 1
    /\ blink' = "none"
    /\ UNCHANGED <<booted, on_off, current_level, on_off_transition_time,
                   start_up_on_off, start_up_current_level, last_brightness,
                   nvs, effect_type, effect_step, buttonVars, batteryVars, sysVars>>

(* battery_update_and_report converts the measured voltage *)
BatteryMvToPercent ==
    /\ percent = -1
    /\ percent' = battery_mv_to_percent(voltage_mv)
    /\ UNCHANGED <<booted, lightVars, workVars, buttonVars, voltage_mv,
                   counters, last_op, ghostVars, sysVars>>

(***************************************************************************)
(* Specifications                                                          *)
(***************************************************************************)
(* the light controller: commands, button toggles, fades, effects *)
Next ==
    \/ Main
    \/ LevelControlSetValue
    \/ OnOffSetValue
    \/ StartIdentifyEffect
    \/ WriteTransitionTime
    \/ ButtonEdge
    \/ ButtonWork
    \/ ExpireTransition
    \/ ExpireEffect
    \/ TransitionWork
    \/ EffectWork
    \/ PolarityTimer

Spec == Init /\ [][Next]_vars

(* the button with the clock: short and long presses *)
NextButton ==
    \/ Main
    \/ ButtonEdge
    \/ ButtonWork
    \/ LongPressWork
    \/ LongPressSleep
    \/ Tick
    \/ ExpireTransition
    \/ TransitionWork

SpecButton == Init /\ [][NextButton]_vars

(* fades alone: light_fade_to calls and the transition ticks *)
NextFade ==
    \/ Main
    \/ FadeTo
    \/ ExpireTransition
    \/ TransitionWork

SpecFade == Init /\ [][NextFade]_vars

(* identify effects, Breathe included, against attribute commands *)
NextEffect ==
    \/ Main
    \/ LevelControlSetValue
    \/ OnOffSetValue
    \/ StartAnyIdentifyEffect
    \/ ExpireEffect
    \/ EffectWork

SpecEffect == Init /\ [][NextEffect]_vars

(* the H-bridge shutdown, statement by statement, against the polarity
   timer interrupt *)
NextPolarity ==
    \/ Main
    \/ LevelCommandWhileSteady
    \/ Tb6612OffBegin
    \/ Tb6612OffStep
    \/ PolarityTimer
    \/ PolarityTimerInOff

SpecPolarity == Init /\ [][NextPolarity]_vars

(* the boot with any set of devices ready, and what follows it: stack
   signals, the status LED, battery reporting and the held button *)
InitSystem ==
    /\ InitLight
    /\ InitRest
    /\ InitSys
    /\ dev_ready \in [Devices -> BOOLEAN]
    /\ settings_err = [subsys_init |-> 0, load |-> 0]
    /\ nvs = [on_off |-> -1, level |-> -1]
    /\ voltage_mv = 0

NextSystem ==
    \/ Main
    \/ ZbossSignal
    \/ ExpireStatusLed
    \/ StatusLedWork
    \/ ExpireBattery
    \/ BatteryWork
    \/ HoldButton
    \/ ButtonWork
    \/ Tick
    \/ LongPressWork
    \/ LongPressSleep

SpecSystem == InitSystem /\ [][NextSystem]_vars

(* the attribute bridge with every callback the stack may deliver *)
NextZcl ==
    \/ Main
    \/ LevelControlSetValue
    \/ OnOffSetValue
    \/ StartIdentifyEffect
    \/ ZclNotImplemented
    \/ ExpireEffect
    \/ EffectWork
    \/ PolarityTimer

SpecZcl == Init /\ [][NextZcl]_vars

(* the startup resolver over every policy pair and loaded state *)
InitStartup ==
    /\ hw = [current_brightness |-> 0, light_is_on |-> FALSE,
             polarity_phase |-> FALSE, ain1 |-> 0, ain2 |-> 0, standby |-> 0,
             polarity_timer |-> FALSE, pwm_pulse |-> 0]
    /\ on_off \in BOOLEAN
    /\ current_level \in SetLevels
    /\ on_off_transition_time = DEFAULT_ON_OFF_TRANSITION_TIME
    /\ start_up_on_off \in StartUpOnOffValues
    /\ start_up_current_level \in StartUpLevelValues
    /\ last_brightness = DEFAULT_LAST_BRIGHTNESS
    /\ transition_start = 0 /\ transition_target = 0
    /\ transition_elapsed = 0 /\ transition_duration = 0
    /\ effect_type = 0 /\ effect_step = 0
    /\ InitRest
    /\ InitSys
    /\ dev_ready = [d \in Devices |-> TRUE]
    /\ settings_err = [subsys_init |-> 0, load |-> 0]
    /\ nvs = [on_off |-> -1, level |-> -1]
    /\ voltage_mv = 0

NextStartup == ApplyStartupBehavior

SpecStartup == InitStartup /\ [][NextStartup]_vars

(* the boot with every readiness of the devices, every outcome of the
   settings store and every stored state, followed by the stack's signals *)
InitBoot ==
    /\ InitLight
    /\ InitRest
    /\ InitSys
    /\ dev_ready \in [Devices -> BOOLEAN]
    /\ settings_err \in SettingsErrors
    /\ nvs \in NvsStates
    /\ voltage_mv = 0

NextBoot ==
    \/ Main
    \/ ZbossSignal

SpecBoot == InitBoot /\ [][NextBoot]_vars

(* on_off_transition_time values whose toggle fades last 100, 24, 1000,
   65500, 65520, 65524 and 65532 ms (the product with 100 is kept in a
   uint16_t) *)
ToggleFadeTimes == {1, 10486, 10, 655, 3932, 11141, 9175}

(* one toggle fade from its first tick to its last: the state light_toggle
   leaves when it has called light_fade_to with the string showing start,
   towards the level it turns on to or towards 0 *)
InitTicks ==
    /\ \E start \in {0, 1, 128, 255}, target \in {0, 128, 255},
          tt \in ToggleFadeTimes :
         /\ start # target
         /\ hw = light_set_brightness(
                     [current_brightness |-> 0, light_is_on |-> FALSE,
                      polarity_phase |-> FALSE, ain1 |-> 0, ain2 |-> 0,
                      standby |-> 0, polarity_timer |-> FALSE,
                      pwm_pulse |-> 0], start, TRUE)
         /\ on_off = (target > 0)
         /\ current_level = (IF target > 0 THEN target ELSE start)
         /\ last_brightness = (IF target > 0 THEN target ELSE start)
         /\ on_off_transition_time = tt
         /\ transition_start = start
         /\ transition_target = target
         /\ transition_elapsed = 0
         /\ transition_duration = ToggleTransitionMs(tt)
         /\ nvs = save_light_state(target > 0,
                                   IF target > 0 THEN target ELSE start)
         /\ fade_req = [start |-> start, target |-> target,
                        duration |-> ToggleTransitionMs(tt),
                        old_target |-> start, scheduled |-> TRUE,
                        interrupting |-> FALSE]
    /\ start_up_on_off = ZB_ZCL_ON_OFF_STARTUP_PREVIOUS
    /\ start_up_current_level = ZB_ZCL_LEVEL_STARTUP_PREVIOUS
    /\ effect_type = 0 /\ effect_step = 0
    /\ booted = TRUE
    /\ workq = <<"transition">>
    /\ timers = {}
    /\ button_pin = FALSE /\ app_pressed = FALSE
    /\ press_age = 0 /\ hold_age = 0
    /\ ep = [started |-> TRUE, short |-> 1, long |-> 0]
    /\ voltage_mv = 0 /\ percent = -1
    /\ cmds = 1
    /\ pwm_failures = MaxPwmFailures
    /\ last_op = [op |-> "toggle", arg |-> 0, level |-> -1, ok |-> TRUE,
                  rep |-> FALSE, same |-> TRUE]
    /\ blink = "none"
    /\ dev_ready = [d \in Devices |-> TRUE]
    /\ settings_err = [subsys_init |-> 0, load |-> 0]
    /\ main_ret = "loop"
    /\ stages = <<"hardware_init", "settings_subsys_init",
                  "clusters_attr_init", "settings_load",
                  "apply_startup_behavior", "zigbee_enable">>
    /\ joined = FALSE /\ status_led = 0
    /\ battery_work_init = TRUE
    /\ battery_voltage = 0 /\ battery_percentage = 0
    /\ adc_attempted = FALSE /\ battery_started = FALSE
    /\ fault = "none" /\ lp_left = 0 /\ off_pc = 0
    /\ param = [device_cb_id |-> "none", cluster_id |-> 0, status |-> "none"]

NextTicks ==
    \/ ExpireTransition
    \/ TransitionWork

SpecTicks == InitTicks /\ [][NextTicks]_vars

(* short presses over every attribute state a booted device can be in: on
   or off at any of the levels, with last_brightness 0 (left by a boot
   that was on at level 0), 128 or its initial 254 *)
InitToggle ==
    /\ \E on \in BOOLEAN, level \in SetLevels, last \in {0, 128, 254} :
         /\ hw = light_set_brightness(
                     [current_brightness |-> 0, light_is_on |-> FALSE,
                      polarity_phase |-> FALSE, ain1 |-> 0, ain2 |-> 0,
                      standby |-> 0, polarity_timer |-> FALSE,
                      pwm_pulse |-> 0], Steady(on, level), TRUE)
         /\ on_off = on
         /\ current_level = level
         /\ last_brightness = last
         /\ nvs = save_light_state(on, level)
    /\ on_off_transition_time = DEFAULT_ON_OFF_TRANSITION_TIME
    /\ start_up_on_off = ZB_ZCL_ON_OFF_STARTUP_PREVIOUS
    /\ start_up_current_level = ZB_ZCL_LEVEL_STARTUP_PREVIOUS
    /\ transition_start = 0 /\ transition_target = 0
    /\ transition_elapsed = 0 /\ transition_duration = 0
    /\ effect_type = 0 /\ effect_step = 0
    /\ booted = TRUE
    /\ workq = << >>
    /\ timers = {}
    /\ button_pin = FALSE /\ app_pressed = FALSE
    /\ press_age = 0 /\ hold_age = 0
    /\ ep = [started |-> FALSE, short |-> 0, long |-> 0]
    /\ voltage_mv = 0 /\ percent = -1
    /\ cmds = 0
    /\ pwm_failures = 0
    /\ last_op = [op |-> "none", arg |-> 0, level |-> -1, ok |-> TRUE,
                  rep |-> FALSE, same |-> TRUE]
    /\ fade_req = [start |-> 0, target |-> 0, duration |-> 0,
                   old_target |-> 0, scheduled |-> FALSE,
                   interrupting |-> FALSE]
    /\ blink = "none"
    /\ dev_ready = [d \in Devices |-> TRUE]
    /\ settings_err = [subsys_init |-> 0, load |-> 0]
    /\ main_ret = "loop"
    /\ stages = <<"hardware_init", "settings_subsys_init",
                  "clusters_attr_init", "settings_load",
                  "apply_startup_behavior", "zigbee_enable">>
    /\ joined = FALSE /\ status_led = 0
    /\ battery_work_init = TRUE
    /\ battery_voltage = 0 /\ battery_percentage = 0
    /\ adc_attempted = FALSE /\ battery_started = FALSE
    /\ fault = "none" /\ lp_left = 0 /\ off_pc = 0
    /\ param = [device_cb_id |-> "none", cluster_id |-> 0, status |-> "none"]

NextToggle ==
    \/ ButtonEdge
    \/ ButtonWork
    \/ ExpireTransition
    \/ TransitionWork

SpecToggle == InitToggle /\ [][NextToggle]_vars

(* a power cycle: static storage is back at its initial values and main()
   has not run; the settings store keeps its keys. last_op remembers the
   on_off and current_level attributes the device had when it went down *)
Reboot ==
    /\ booted
    /\ hw' = [current_brightness |-> 0, light_is_on |-> FALSE,
              polarity_phase |-> FALSE, ain1 |-> 0, ain2 |-> 0,
              standby |-> 0, polarity_timer |-> FALSE, pwm_pulse |-> 0]
    /\ on_off' = FALSE
    /\ current_level' = 0
    /\ on_off_transition_time' = 0
    /\ start_up_on_off' = 0
    /\ start_up_current_level' = 0
    /\ last_brightness' = DEFAULT_LAST_BRIGHTNESS
    /\ transition_start' = 0 /\ transition_target' = 0
    /\ transition_elapsed' = 0 /\ transition_duration' = 0
    /\ effect_type' = 0 /\ effect_step' = 0
    /\ booted' = FALSE
    /\ workq' = << >>
    /\ timers' = {}
    /\ button_pin' = FALSE /\ app_pressed' = FALSE
    /\ press_age' = 0 /\ hold_age' = 0
    /\ ep' = [started |-> FALSE, short |-> 0, long |-> 0]
    /\ percent' = -1
    /\ last_op' = [op |-> "reboot", arg |-> IF on_off THEN 1 ELSE 0,
                   level |-> current_level, ok |-> TRUE, rep |-> FALSE,
                   same |-> TRUE]
    /\ fade_req' = [start |-> 0, target |-> 0, duration |-> 0,
                    old_target |-> 0, scheduled |-> FALSE,
                    interrupting |-> FALSE]
    /\ blink' = "none"
    /\ main_ret' = "none"
    /\ stages' = << >>
    /\ joined' = FALSE /\ status_led' = 0
    /\ battery_work_init' = FALSE
    /\ battery_voltage' = 0 /\ battery_percentage' = 0
    /\ adc_attempted' = FALSE /\ battery_started' = FALSE
    /\ fault' = "none" /\ lp_left' = 0 /\ off_pc' = 0
    /\ param' = [device_cb_id |-> "none", cluster_id |-> 0,
                 status |-> "none"]
    /\ UNCHANGED <<nvs, voltage_mv, counters, dev_ready, settings_err>>

(* commands, short presses and fades with power cycles between them *)
NextReboot ==
    \/ Main
    \/ LevelControlSetValue
    \/ OnOffSetValue
    \/ ButtonEdge
    \/ ButtonWork
    \/ ExpireTransition
    \/ TransitionWork
    \/ Reboot

SpecReboot == Init /\ [][NextReboot]_vars

(* the battery conversion over every voltage up to MaxMv *)
InitMv ==
    /\ InitLight
    /\ InitRest
    /\ InitSys
    /\ dev_ready = [d \in Devices |-> TRUE]
    /\ settings_err = [subsys_init |-> 0, load |-> 0]
    /\ nvs = [on_off |-> -1, level |-> -1]
    /\ voltage_mv \in 0..MaxMv

NextMv == BatteryMvToPercent

SpecMv == InitMv /\ [][NextMv]_vars

(***************************************************************************)
(* Properties                                                              *)
(***************************************************************************)
InRange(x, a, b) == Min(a, b) <= x /\ x <= Max(a, b)

(* C1: light_set_brightness is idempotent: a second call with the same
   brightness, the PWM write succeeding both times, leaves
   current_brightness, light_is_on, polarity_phase, the H-bridge pins, the
   polarity timer and the pulse as the first call left them *)
C1_SetBrightnessIdempotent ==
    /\ \A level \in SetLevels \cup FadeLevels :
         LET h1 == light_set_brightness(hw, level, TRUE)
         IN  light_set_brightness(h1, level, TRUE) = h1
    /\ last_op.rep => last_op.same

(* a repeated successful write of a non-zero level made in polarity phase B *)
C1_Witness ==
    /\ last_op.rep /\ last_op.level = 128
    /\ hw.polarity_phase /\ hw.current_brightness = 128

(* C10: light_is_on is true exactly when current_brightness > 0, in every
   state between handlers, failed PWM writes included *)
C10_IsOnIffBright == hw.light_is_on = (hw.current_brightness > 0)

(* a write of 0 failed while the light was on *)
C10_Witness ==
    /\ ~last_op.ok /\ last_op.level = 0
    /\ hw.light_is_on /\ hw.current_brightness > 0

(* C2: a fade writes exactly its target on the tick where
   transition_elapsed >= transition_duration and schedules no further tick;
   every earlier tick reschedules and writes a value that does not pass the
   target *)
C2_FadeArrives ==
    [][TransitionWork =>
        IF transition_elapsed' >= fade_req.duration
        THEN /\ last_op'.level = fade_req.target
             /\ last_op'.ok => hw'.current_brightness = fade_req.target
             /\ ~TransitionPending'
        ELSE /\ InRange(last_op'.level, fade_req.start, fade_req.target)
             /\ TransitionPending']_vars

(* a descending fade has run its last tick and the light is at the target *)
C2_Witness ==
    /\ last_op.op = "transition" /\ last_op.ok
    /\ fade_req.scheduled /\ fade_req.start > fade_req.target
    /\ fade_req.duration = 100
    /\ transition_elapsed = fade_req.duration
    /\ hw.current_brightness = fade_req.target
    /\ ~TransitionPending

(* C3: light_fade_to(x, 0) does what light_set_brightness(x) does, and
   light_fade_to(current_brightness, d) leaves the brightness state as it
   was; neither leaves transition work pending *)
C3_InstantFade ==
    [][(FadeTo /\ (fade_req'.duration = 0
                   \/ fade_req'.target = hw.current_brightness)) =>
        /\ hw' = light_set_brightness(hw, fade_req'.target, last_op'.ok)
        /\ fade_req'.target = hw.current_brightness => hw' = hw
        /\ ~TransitionPending']_vars

(* a zero-duration call changed the brightness while a fade was running *)
C3_Witness ==
    /\ last_op.op = "fade_to" /\ last_op.ok
    /\ fade_req.duration = 0 /\ fade_req.interrupting
    /\ fade_req.start # fade_req.target
    /\ hw.current_brightness = fade_req.target
    /\ ~TransitionPending

(* C4: a light_fade_to call made while a fade is in progress replaces it:
   the transition state is the new call's, transition work is pending only
   if the new call fades, and every later tick writes the value the new
   call's interpolation gives *)
C4_NewFadeReplacesOld ==
    [][/\ (FadeTo /\ fade_req'.interrupting) =>
            /\ TransitionPending' = fade_req'.scheduled
            /\ fade_req'.scheduled =>
                  /\ transition_start' = hw.current_brightness
                  /\ transition_target' = fade_req'.target
                  /\ transition_duration' = fade_req'.duration
                  /\ transition_elapsed' = 0
       /\ (TransitionWork /\ fade_req.interrupting) =>
            /\ fade_req.scheduled
            /\ last_op'.level =
                  IF transition_elapsed' >= fade_req.duration
                  THEN fade_req.target
                  ELSE fade_req.start
                       + CDiv((fade_req.target - fade_req.start)
                              * transition_elapsed', fade_req.duration)]_vars

(* the second fade, started mid-way through the first towards another
   target, has arrived *)
C4_Witness ==
    /\ fade_req.interrupting /\ fade_req.scheduled
    /\ fade_req.old_target # fade_req.target
    /\ ~InRange(fade_req.old_target, fade_req.start, fade_req.target)
    /\ last_op.op = "transition" /\ last_op.ok
    /\ hw.current_brightness = fade_req.target
    /\ ~TransitionPending

(* C5: when a Blink effect starts while a fade is in progress, the effect's
   restore step sets the brightness to the steady value of the attributes
   (current_level if on_off, else 0), and no later tick of the fade sets it
   to anything else *)
C5_BlinkRestoresSteady ==
    [][/\ (EffectWork /\ blink = "midfade" /\ blink' = "restored"
           /\ last_op'.ok) =>
            hw'.current_brightness = Steady(on_off, current_level)
       /\ (TransitionWork /\ blink = "restored") =>
            last_op'.level = Steady(on_off, current_level)]_vars

(* C6: no transition tick runs, and so none calls light_set_brightness,
   while an identify effect is active (its next step is pending) *)
C6_NoTickDuringEffect ==
    [][TransitionWork => ~EffectPending]_vars

(* no button or long-press work is waiting to run *)
ButtonSettled ==
    /\ "button" \notin Range(workq)
    /\ "long_press" \notin Range(workq)

(* C7: a press followed by a release less than BUTTON_LONG_PRESS_MS later
   yields exactly one short-press event (one toggle) and no long-press
   event, however the edges, the button work and the long-press timer
   interleave *)
C7_ShortPressTogglesOnce ==
    (/\ ep.started /\ ~button_pin
     /\ hold_age * TickMs < BUTTON_LONG_PRESS_MS
     /\ ButtonSettled)
    => (ep.short = 1 /\ ep.long = 0)

(* C8: a button held for at least BUTTON_LONG_PRESS_MS yields exactly one
   long-press event and no short-press event for that press *)
C8_LongPressFiresOnce ==
    (/\ ep.started
     /\ hold_age * TickMs >= BUTTON_LONG_PRESS_MS
     /\ ButtonSettled)
    => (ep.long = 1 /\ ep.short = 0)

(* C9: battery_mv_to_percent maps 4200 mV to 100, 3000 mV to 0, 3800 mV to
   50, and 5000 mV (above the top of the curve) to 100 *)
C9_BatteryCurvePoints ==
    percent # -1 =>
        /\ voltage_mv = 4200 => percent = 100
        /\ voltage_mv = 3000 => percent = 0
        /\ voltage_mv = 3800 => percent = 50
        /\ voltage_mv = 5000 => percent = 100

(* 5000 mV has been converted *)
C9_Witness == voltage_mv = 5000 /\ percent = 100

(* C11: when the PWM write fails inside light_set_brightness(level), the
   requested level is still recorded: current_brightness = level after the
   call *)
C11_FailedWriteRecordsLevel ==
    (last_op.level >= 0 /\ ~last_op.ok) =>
        hw.current_brightness = last_op.level

(* C12: a polarity timer tick that runs while light_is_on is false changes
   neither polarity_phase nor the AIN1/AIN2 pins, so once tb6612_off has
   driven both lines low no tick racing it has re-energised one *)
C12_TickInertWhenOff ==
    /\ [](off_pc = 0 /\ ~hw.light_is_on => hw.ain1 = 0 /\ hw.ain2 = 0)
    /\ [][((PolarityTimer \/ PolarityTimerInOff) /\ ~hw.light_is_on) =>
            hw' = hw]_vars

(* a tick ran between light_is_on = false and k_timer_stop, and the
   shutdown then completed *)
C12_Witness ==
    /\ last_op.op = "polarity_timer" /\ last_op.arg = 1 /\ last_op.same
    /\ off_pc = 0 /\ ~hw.light_is_on
    /\ hw.ain1 = 0 /\ hw.ain2 = 0 /\ hw.standby = 0

(* the effect script is at its restore step *)
AtRestoreStep ==
    \/ effect_type = EFFECT_ID_BLINK /\ effect_step >= 1
    \/ effect_type = EFFECT_ID_BREATHE /\ effect_step >= BREATHE_STEPS
    \/ effect_type = EFFECT_ID_OKAY /\ effect_step >= OKAY_STEPS
    \/ effect_type = EFFECT_ID_CHANNEL_CHANGE /\ effect_step >= 2

(* C13: when a Blink, Breathe, Okay or ChannelChange script runs its restore
   step, effect_type becomes STOP, no effect work remains scheduled, and the
   brightness written is current_level if on_off, else 0, as the attributes
   are at that moment *)
C13_EffectCompletion ==
    [][(EffectWork /\ AtRestoreStep) =>
        /\ effect_type' = EFFECT_ID_STOP
        /\ ~EffectPending'
        /\ last_op'.level = (IF on_off THEN current_level ELSE 0)
        /\ last_op'.ok =>
              hw'.current_brightness = (IF on_off THEN current_level ELSE 0)
       ]_vars

(* Breathe has completed after the level attribute changed during it *)
C13_Witness ==
    /\ last_op.op = "effect" /\ last_op.arg = EFFECT_ID_BREATHE /\ last_op.ok
    /\ effect_type = EFFECT_ID_STOP /\ effect_step = BREATHE_STEPS
    /\ on_off /\ current_level = 1 /\ hw.current_brightness = 1
    /\ ~EffectPending

(* C14: apply_startup_behavior resolves the level (0 for Minimum, the
   loaded current_level for Previous, v for any other value v) and on/off
   (false for Off, true for On, the negation of the loaded on_off for
   Toggle, the loaded on_off for Previous) independently, writes both to
   the attributes and sets the brightness to the level if on, else 0 *)
C14_StartupResolution ==
    [][ApplyStartupBehavior =>
        LET level == CASE start_up_current_level = 0 -> 0
                       [] start_up_current_level = 255 -> current_level
                       [] OTHER -> start_up_current_level
            on == CASE start_up_on_off = 0 -> FALSE
                    [] start_up_on_off = 1 -> TRUE
                    [] start_up_on_off = 2 -> ~on_off
                    [] start_up_on_off = 255 -> on_off
                    [] OTHER -> on_off'
        IN  /\ current_level' = level
            /\ on_off' = on
            /\ last_op'.level = (IF on THEN level ELSE 0)
            /\ last_op'.ok =>
                  hw'.current_brightness = (IF on THEN level ELSE 0)
       ]_vars

(* Toggle with a specific level has turned the light on at that level *)
C14_Witness ==
    /\ last_op.op = "startup" /\ last_op.ok
    /\ start_up_on_off = ZB_ZCL_ON_OFF_STARTUP_TOGGLE
    /\ start_up_current_level = 128
    /\ on_off /\ current_level = 128 /\ hw.current_brightness = 128


(* C15: in every quiescent state the persisted on/off and level equal the
   on_off and current_level attributes *)
C15_PersistedEqualsAttributes ==
    (booted /\ workq = <<>> /\ timers = {} /\ off_pc = 0) =>
        nvs = save_light_state(on_off, current_level)


(* zcl_device_cb has run; param' holds the callback it was given *)
ZclStep ==
    LevelControlSetValue \/ OnOffSetValue \/ StartIdentifyEffect
        \/ ZclNotImplemented

(* C16: an attribute write for a cluster other than On/Off or Level
   Control, and a callback id with no handler, return not-implemented and
   change no local state *)
C16_UnhandledNotImplemented ==
    [][(/\ ZclStep
        /\ \/ /\ param'.device_cb_id = "ZB_ZCL_SET_ATTR_VALUE_CB_ID"
              /\ param'.cluster_id \notin {6, 8}
           \/ param'.device_cb_id = "ZB_ZCL_IDENTIFY_CB_ID")
       => /\ param'.status = "RET_NOT_IMPLEMENTED"
          /\ UNCHANGED <<booted, lightVars, workVars, buttonVars,
                         batteryVars, sysRest>>
      ]_vars

(* a Color Control write was refused while the light was on at 128 *)
C16_Witness ==
    /\ param.device_cb_id = "ZB_ZCL_SET_ATTR_VALUE_CB_ID"
    /\ param.cluster_id = 768
    /\ param.status = "RET_NOT_IMPLEMENTED"
    /\ on_off /\ current_level = 128 /\ hw.current_brightness = 128


(* a device that hardware_init insists on is not ready *)
RequiredDeviceMissing ==
    \E d \in {"pwm", "ain1", "ain2", "standby", "button"} : ~dev_ready[d]

(* C17: if the PWM device, one of the three H-bridge GPIOs or the button
   is not ready at boot, hardware_init returns an error, main returns it,
   and no later stage runs: settings are not loaded, the startup resolver
   does not run and the stack is not started *)
C17_HardwareFailureStopsBoot ==
    /\ [](RequiredDeviceMissing =>
            /\ main_ret \in {"none", "-ENODEV"}
            /\ stages = << >> /\ ~booted
            /\ ~joined /\ ~battery_started /\ workq = << >> /\ timers = {})
    /\ [][(Main /\ RequiredDeviceMissing) =>
            /\ main_ret' = "-ENODEV"
            /\ UNCHANGED <<booted, lightVars, workVars, stages>>]_vars

(* main has returned the error of a boot without the button *)
C17_Witness ==
    /\ main_ret = "-ENODEV" /\ ~dev_ready["button"]
    /\ dev_ready["pwm"] /\ dev_ready["ain1"] /\ dev_ready["ain2"]
    /\ dev_ready["standby"]
    /\ stages = << >> /\ ~booted


(* C18: when battery_init fails because the ADC is not ready, the battery
   subsystem is disabled for the session: no measurement is attempted, no
   battery cycle is scheduled and the battery attributes are never updated,
   even after the device joins *)
C18_BatteryDisabledWithoutAdc ==
    ~dev_ready["adc"] =>
        /\ ~adc_attempted
        /\ ~Pending(Work, "battery")
        /\ battery_voltage = 0 /\ battery_percentage = 0
        /\ fault = "none"


(* C19: once periodic battery reporting has started, every run of the
   battery cycle schedules the next one, whether the sample succeeded or
   not: in every state after the start one battery cycle is pending *)
C19_BatteryCyclePending ==
    battery_started => Pending(Work, "battery")


(* C20: the status indicator is off while the device is joined: it is
   never left on in a joined state in which no work is queued or running *)
C20_IndicatorOffWhenJoined ==
    (dev_ready["status_led"] /\ booted /\ joined /\ workq = << >>) =>
        (status_led = 0 /\ ~Pending(Work, "status_led"))


(* C21: tb6612_on leaves the standby line at 1, AIN1 = 1, AIN2 = 0, the
   polarity phase at A and the alternation timer running; tb6612_off leaves
   the timer stopped and AIN1, AIN2 and the standby line at 0; so in every
   state with light_is_on false and tb6612_off not in progress the three
   lines are low and the timer is stopped *)
C21_BridgeOnOffStates ==
    /\ [][(~hw.light_is_on /\ hw'.light_is_on) =>
            /\ hw'.standby = 1 /\ hw'.ain1 = 1 /\ hw'.ain2 = 0
            /\ ~hw'.polarity_phase /\ hw'.polarity_timer]_vars
    /\ []((off_pc = 0 /\ ~hw.light_is_on) =>
            /\ hw.ain1 = 0 /\ hw.ain2 = 0 /\ hw.standby = 0
            /\ ~hw.polarity_timer)

(* the second level command has switched the bridge on *)
C21_Witness ==
    /\ last_op.op = "set_level" /\ last_op.ok /\ ~last_op.same
    /\ hw.light_is_on /\ hw.standby = 1 /\ hw.ain1 = 1 /\ hw.ain2 = 0
    /\ ~hw.polarity_phase /\ hw.polarity_timer
    /\ cmds = 2 /\ off_pc = 0


(* the brightness values each effect's script writes before it restores *)
Script(e) ==
    CASE e = EFFECT_ID_BLINK -> <<255>>
      [] e = EFFECT_ID_BREATHE ->
            [i \in 1..30 |-> IF i % 2 = 1 THEN 255 ELSE 0]
      [] e = EFFECT_ID_OKAY -> <<255, 0, 255, 0>>
      [] e = EFFECT_ID_CHANNEL_CHANGE -> <<255, 25>>
      [] OTHER -> << >>

(* C22: each identify effect writes exactly its script: run number k + 1 of
   the effect step writes the script's value number k + 1 and schedules the
   next run; the run after the last value restores the steady brightness
   and leaves no effect work scheduled *)
C22_EffectScripts ==
    [][EffectWork =>
        IF effect_step < Len(Script(effect_type))
        THEN /\ last_op'.level = Script(effect_type)[effect_step + 1]
             /\ effect_step' = effect_step + 1
             /\ effect_type' = effect_type
             /\ EffectPending'
        ELSE /\ last_op'.level = (IF on_off THEN current_level ELSE 0)
             /\ effect_type' = EFFECT_ID_STOP
             /\ ~EffectPending'
       ]_vars

(* Breathe has written its thirtieth value and its restore step is due *)
C22_Witness ==
    /\ last_op.op = "effect" /\ last_op.arg = EFFECT_ID_BREATHE
    /\ last_op.level = 0 /\ last_op.ok
    /\ effect_type = EFFECT_ID_BREATHE /\ effect_step = 30
    /\ hw.current_brightness = 0 /\ EffectPending


(* the effect ids that have a script *)
ScriptedEffects ==
    {EFFECT_ID_BLINK, EFFECT_ID_BREATHE, EFFECT_ID_OKAY,
     EFFECT_ID_CHANNEL_CHANGE}

(* C23: start_identify_effect(e) cancels a running effect and resets
   effect_step to 0: the previous effect's pending step is gone, one step
   of e is queued and none is on a timeout, at most one effect step is
   ever pending, and the next effect step writes the first value of e's
   script *)
C23_StartReplacesRunningEffect ==
    /\ [][(StartAnyIdentifyEffect /\ last_op'.arg \in ScriptedEffects) =>
            /\ effect_type' = last_op'.arg
            /\ effect_step' = 0
            /\ "effect" \notin timers'
            /\ Len(SelectSeq(workq', LAMBDA w : w = "effect")) = 1]_vars
    /\ [][(EffectWork /\ last_op.op = "identify") =>
            /\ last_op.arg \in ScriptedEffects
            /\ effect_type = last_op.arg
            /\ last_op'.level = Script(last_op.arg)[1]]_vars
    /\ [](/\ Len(SelectSeq(workq, LAMBDA w : w = "effect")) <= 1
          /\ ~("effect" \in timers /\ "effect" \in Range(workq)))

(* Okay was started while ChannelChange was holding its dim level *)
C23_Witness ==
    /\ last_op.op = "identify" /\ last_op.arg = EFFECT_ID_OKAY
    /\ effect_type = EFFECT_ID_OKAY /\ effect_step = 0
    /\ hw.current_brightness = CHANNEL_CHANGE_DIM
    /\ workq = <<"effect">> /\ timers = {}
    /\ cmds = 2


(* C24: start_identify_effect with Stop or FinishEffect restores at once:
   when it returns no effect work is pending, no scripted effect is active,
   and the brightness it has set is current_level if on_off is true, else
   0, whichever effect and step were active before *)
C24_StopRestoresImmediately ==
    [][(/\ StartAnyIdentifyEffect
        /\ last_op'.arg \in {EFFECT_ID_STOP, EFFECT_ID_FINISH_EFFECT}) =>
            /\ ~EffectPending'
            /\ effect_type' \notin ScriptedEffects
            /\ effect_step' = 0
            /\ last_op'.level = (IF on_off THEN current_level ELSE 0)
            /\ last_op'.ok =>
                 hw'.current_brightness =
                     (IF on_off THEN current_level ELSE 0)
      ]_vars

(* FinishEffect has ended a Breathe that was showing 255, back to 128 *)
C24_Witness ==
    /\ last_op.op = "identify" /\ last_op.arg = EFFECT_ID_FINISH_EFFECT
    /\ last_op.ok /\ ~last_op.same
    /\ effect_type = EFFECT_ID_FINISH_EFFECT
    /\ on_off /\ current_level = 128 /\ hw.current_brightness = 128
    /\ ~EffectPending /\ cmds = 2


(* C25 as stated: whatever voltage is being converted, read in table order
   the table is strictly decreasing in millivolts and non-decreasing in
   percent, has 21 points, starts at 4200 mV / 100 % and ends at
   3000 mV / 0 % *)
C25_TableAsStated ==
    /\ voltage_mv \in Nat
    /\ Len(lipo_discharge_curve) = 21
    /\ lipo_discharge_curve[1] = [mv |-> 4200, percent |-> 100]
    /\ lipo_discharge_curve[21] = [mv |-> 3000, percent |-> 0]
    /\ \A i \in 1..(Len(lipo_discharge_curve) - 1) :
         /\ lipo_discharge_curve[i].mv > lipo_discharge_curve[i + 1].mv
         /\ lipo_discharge_curve[i].percent
               <= lipo_discharge_curve[i + 1].percent

(* C25: whatever voltage is being converted, read in table order the table
   is strictly decreasing in millivolts and strictly decreasing in percent
   (so percent never falls as millivolts rise), has 21 points, starts at
   4200 mV / 100 % and ends at 3000 mV / 0 % *)
C25_TableMonotone ==
    /\ voltage_mv \in Nat
    /\ Len(lipo_discharge_curve) = 21
    /\ lipo_discharge_curve[1] = [mv |-> 4200, percent |-> 100]
    /\ lipo_discharge_curve[21] = [mv |-> 3000, percent |-> 0]
    /\ \A i \in 1..(Len(lipo_discharge_curve) - 1) :
         /\ lipo_discharge_curve[i].mv > lipo_discharge_curve[i + 1].mv
         /\ lipo_discharge_curve[i].percent
               > lipo_discharge_curve[i + 1].percent

(* the conversion has read the table at its last but one point *)
C25_Witness == voltage_mv = 3300 /\ percent = 5


(* C26: battery_mv_to_percent(mv) is in 0..100, is 100 for mv >= 4200 and
   0 for mv <= 3000, is the table percent at every calibration point, is
   p_low + floor((mv - v_low) * (p_high - p_low) / (v_high - v_low)) for
   the bracketing pair of points otherwise, and does not decrease as mv
   grows *)
C26_PercentInterpolation ==
    percent # -1 =>
        /\ percent \in 0..100
        /\ voltage_mv >= 4200 => percent = 100
        /\ voltage_mv <= 3000 => percent = 0
        /\ \A i \in 1..21 :
             voltage_mv = lipo_discharge_curve[i].mv =>
                 percent = lipo_discharge_curve[i].percent
        /\ \A i \in 1..20 :
             LET hi == lipo_discharge_curve[i]
                 lo == lipo_discharge_curve[i + 1]
             IN  (lo.mv <= voltage_mv /\ voltage_mv < hi.mv) =>
                     percent = lo.percent
                         + ((voltage_mv - lo.mv) * (hi.percent - lo.percent))
                               \div (hi.mv - lo.mv)
        /\ voltage_mv > 0 => battery_mv_to_percent(voltage_mv - 1) <= percent

(* 3400 mV, between the points 3300 mV / 5 % and 3450 mV / 10 %, reads 8 % *)
C26_Witness == voltage_mv = 3400 /\ percent = 8


(* the battery cycle ran in this step, periodic or the immediate one of
   battery_start_reporting *)
BatteryCycle ==
    /\ BatteryWork \/ ZbossSignal
    /\ last_op'.op \in {"battery_work_handler", "battery_start_reporting"}

(* C27: a battery cycle whose measurement is 0 mV (a failed ADC call or a
   sample that converts to 0) leaves battery_voltage and battery_percentage
   as they were and hands nothing to the attribute bridge; any other cycle
   sets battery_voltage to mv / 100 and battery_percentage to 2 * percent,
   which is at most 200 *)
C27_BatteryCycleOutcome ==
    [][BatteryCycle =>
        IF voltage_mv' = 0
        THEN /\ battery_voltage' = battery_voltage
             /\ battery_percentage' = battery_percentage
             /\ last_op'.arg = -1
        ELSE /\ battery_voltage' = voltage_mv' \div 100
             /\ percent' \in 0..100
             /\ battery_percentage' = 2 * percent'
             /\ battery_percentage' <= 200]_vars

(* a failed cycle after a successful one: the attributes of the 4201 mV
   measurement are still in place *)
C27_Witness ==
    /\ last_op.op = "battery_work_handler"
    /\ voltage_mv = 0
    /\ last_op.arg = -1
    /\ joined
    /\ battery_voltage = 42
    /\ battery_percentage = 200


(* C28: apply_startup_behavior applies the resolved state at once: it makes
   one light_set_brightness call with the steady value of the attributes it
   has just written, starts no fade (the transition state and the work
   queue are as before, no transition tick is pending), and the written
   brightness is what current_brightness holds when it returns *)
C28_StartupAppliesInstantly ==
    [][ApplyStartupBehavior =>
        /\ last_op'.level = Steady(on_off', current_level')
        /\ ~TransitionPending'
        /\ UNCHANGED <<trVars, workVars, fade_req>>
        /\ last_op'.ok =>
             hw'.current_brightness = Steady(on_off', current_level')
      ]_vars

(* policy On with level Previous has lit the string at the loaded level
   128, with nothing scheduled *)
C28_Witness ==
    /\ last_op.op = "startup" /\ last_op.ok /\ ~last_op.same
    /\ start_up_on_off = ZB_ZCL_ON_OFF_STARTUP_ON
    /\ start_up_current_level = ZB_ZCL_LEVEL_STARTUP_PREVIOUS
    /\ current_level = 128 /\ hw.current_brightness = 128
    /\ workq = << >> /\ timers = {}


(* position of a stage in the order main() ran them; 0: it did not run *)
StageIndex(order, name) ==
    IF name \in Range(order)
    THEN CHOOSE i \in 1..Len(order) : order[i] = name
    ELSE 0

(* main() got past hardware_init in this step *)
BootStep == Main /\ hardware_init(dev_ready) = "0"

(* C29: whenever the hardware is ready main() attempts the load before the
   startup resolver and goes on to start the stack; when settings
   initialisation or the load fails it does so all the same, and the
   resolver works on the defaults of clusters_attr_init: on_off off,
   current_level 255, both startup policies Previous, so the light stays
   off whatever the store holds *)
C29_SettingsFailureDoesNotBlockBoot ==
    [][BootStep =>
        /\ booted' /\ main_ret' = "loop"
        /\ 0 < StageIndex(stages', "settings_load")
        /\ StageIndex(stages', "settings_load")
              < StageIndex(stages', "apply_startup_behavior")
        /\ StageIndex(stages', "apply_startup_behavior")
              < StageIndex(stages', "zigbee_enable")
        /\ start_up_on_off' = ZB_ZCL_ON_OFF_STARTUP_PREVIOUS
        /\ start_up_current_level' = ZB_ZCL_LEVEL_STARTUP_PREVIOUS
        /\ (settings_err.subsys_init # 0 \/ settings_err.load # 0) =>
              /\ ~on_off'
              /\ current_level' = ZB_ZCL_LEVEL_CONTROL_LEVEL_MAX_VALUE
              /\ last_op'.level = 0
              /\ hw'.current_brightness = 0
        /\ (settings_err.subsys_init = 0 /\ settings_err.load = 0
               /\ nvs.on_off >= 0 /\ nvs.level >= 0) =>
              /\ on_off' = (nvs.on_off # 0)
              /\ current_level' = nvs.level
              /\ last_op'.level = Steady(nvs.on_off # 0, nvs.level)
      ]_vars

(* the load failed with on at level 128 stored: the device has booted, off
   at the default level, and the stack has delivered a signal *)
C29_Witness ==
    /\ booted /\ main_ret = "loop" /\ joined
    /\ settings_err.subsys_init = 0 /\ settings_err.load # 0
    /\ nvs = [on_off |-> 1, level |-> 128]
    /\ ~on_off /\ current_level = 255 /\ hw.current_brightness = 0
    /\ "zigbee_enable" \in Range(stages)


(* C30: no handler sleeps on the work queue, so no fade tick, effect step
   or button event ever waits in the queue behind a handler that is asleep
   in k_msleep *)
C30_NoWorkBehindSleepingHandler ==
    ~(lp_left > 0 /\ Len(workq) > 1)


(* number of transition ticks scheduled or queued *)
TransitionCopies(q, t) ==
    Cardinality({i \in DOMAIN q : q[i] = "transition"})
        + (IF "transition" \in t THEN 1 ELSE 0)

(* C31: a short press handled while a toggle fade is in progress toggles
   the attributes as they are then: on_off is inverted, the running fade
   is replaced by one from the current brightness to the new steady value
   (or that value is written at once when the string already shows it), at
   most one tick is scheduled, and the tick that ends the last press's
   fade writes that press's target, current_level if on_off, else 0 *)
C31_PressRestartsFade ==
    [][/\ (ButtonWork /\ last_op'.op = "toggle" /\ TransitionPending) =>
            /\ on_off' = ~on_off
            /\ fade_req'.interrupting
            /\ fade_req'.start = hw.current_brightness
            /\ fade_req'.target = Steady(on_off', current_level')
            /\ TransitionPending' = fade_req'.scheduled
            /\ TransitionCopies(workq', timers') <= 1
            /\ IF fade_req'.scheduled
               THEN /\ transition_start' = hw.current_brightness
                    /\ transition_target' = fade_req'.target
                    /\ transition_elapsed' = 0
                    /\ hw' = hw
               ELSE /\ last_op'.level = fade_req'.target
                    /\ last_op'.ok =>
                          hw'.current_brightness = fade_req'.target
       /\ (TransitionWork /\ fade_req.interrupting /\ ~TransitionPending') =>
            /\ last_op'.level = Steady(on_off, current_level)
            /\ last_op'.ok =>
                  hw'.current_brightness = Steady(on_off, current_level)
      ]_vars

(* the second press came while the string was part of the way up; its fade
   back down from there has ended with the string dark *)
C31_Witness ==
    /\ fade_req.interrupting /\ fade_req.scheduled
    /\ fade_req.start > 0 /\ fade_req.start < fade_req.old_target
    /\ fade_req.target = 0
    /\ last_op.op = "transition" /\ last_op.ok
    /\ ~on_off /\ hw.current_brightness = 0
    /\ ~TransitionPending


(* C32: every tick of a fade that is not its last applies
   start + (target - start) * elapsed / duration, the quotient truncated
   toward zero; the value lies between start and target, and each tick's
   value is no nearer the start than the one before it *)
C32_TickInterpolates ==
    [][(TransitionWork /\ TransitionPending') =>
        /\ last_op'.level =
              transition_start
                  + CDiv((transition_target - transition_start)
                            * transition_elapsed', transition_duration)
        /\ InRange(last_op'.level, transition_start, transition_target)
        /\ InRange(last_op'.level, hw.current_brightness, transition_target)
      ]_vars


(* C35: the elapsed time of a fade grows by TRANSITION_STEP_MS on every
   tick without wrapping, and the fade ends on tick ceil(duration / 20):
   the tick that schedules no successor is the one that brings the elapsed
   time to 20 * ceil(duration / 20) *)
C35_FadeEndsOnTime ==
    [][TransitionWork =>
        /\ transition_elapsed' = transition_elapsed + TRANSITION_STEP_MS
        /\ ~TransitionPending' =>
              transition_elapsed' =
                  TRANSITION_STEP_MS
                      * ((transition_duration + TRANSITION_STEP_MS - 1)
                            \div TRANSITION_STEP_MS)
      ]_vars


(* C33: whatever the actuator state, a successful light_set_brightness of
   any level in 0..255 writes the pulse cie1931_lut[level] * period / 255;
   the pulse does not fall as the level rises, is 0 at level 0, is the full
   period at level 255 and never exceeds the period; the pulse in force is
   the one of the recorded brightness *)
C33_PulseFromCurve ==
    /\ \A level \in 0..255 :
         LET pulse == light_set_brightness(hw, level, TRUE).pwm_pulse
         IN  /\ pulse = (cie1931_lut[level + 1] * pwm_period) \div 255
             /\ pulse >= 0 /\ pulse <= pwm_period
             /\ level > 0 =>
                  pulse >= light_set_brightness(hw, level - 1, TRUE).pwm_pulse
    /\ light_set_brightness(hw, 0, TRUE).pwm_pulse = 0
    /\ light_set_brightness(hw, 255, TRUE).pwm_pulse = pwm_period
    /\ hw.pwm_pulse = (cie1931_lut[hw.current_brightness + 1] * pwm_period)
                         \div 255

(* the resolver has written level 128: a pulse strictly inside the period *)
C33_Witness ==
    /\ last_op.op = "startup" /\ last_op.ok /\ last_op.level = 128
    /\ hw.current_brightness = 128
    /\ hw.pwm_pulse > 0 /\ hw.pwm_pulse < pwm_period


(* C34: whenever no fade tick and no effect step is pending, and no PWM
   write has failed, current_brightness is the steady value of the
   attributes: current_level if on_off, else 0 *)
C34_SteadyWhenIdle ==
    (/\ booted /\ off_pc = 0 /\ pwm_failures = 0
     /\ ~TransitionPending /\ ~EffectPending) =>
        hw.current_brightness = Steady(on_off, current_level)


(* C36: the fade a toggle asks for lasts on_off_transition_time * 100 ms
   when the attribute is not 0, and 1000 ms when it is 0 *)
C36_ToggleFadeTime ==
    [][(ButtonWork /\ last_op'.op = "toggle") =>
        fade_req'.duration =
            (IF on_off_transition_time = 0 THEN 1000
             ELSE on_off_transition_time * 100)]_vars


(* AIN1 and AIN2 are not both high in any of the states *)
NeverBothHigh(states) ==
    \A i \in DOMAIN states : ~(states[i].ain1 = 1 /\ states[i].ain2 = 1)

(* C37: AIN1 and AIN2 are never both high: not between handlers, not
   between the statements of tb6612_off, not after any single pin write
   of an alternation tick and not after any statement of tb6612_on *)
C37_NeverBothHigh ==
    /\ [](~(hw.ain1 = 1 /\ hw.ain2 = 1))
    /\ [][/\ (PolarityTimer \/ PolarityTimerInOff) =>
               /\ NeverBothHigh(polarity_timer_writes(hw))
               /\ hw' = polarity_timer_writes(hw)[Len(polarity_timer_writes(hw))]
          /\ (~hw.light_is_on /\ hw'.light_is_on) =>
               /\ NeverBothHigh(tb6612_on_writes(hw))
               /\ \A f \in {"standby", "ain1", "ain2", "polarity_phase",
                            "light_is_on", "polarity_timer"} :
                     hw'[f] = tb6612_on_writes(hw)[6][f]]_vars


(* C38: a toggle inverts on_off; turning on it fades to current_level if
   that is above 0, else to last_brightness if that is above 0, else to
   255, and sets current_level to this target, which is above 0; turning
   off it fades to 0 and leaves current_level alone; and whatever the
   state, a toggle followed at once by a second one gives back on_off and,
   when current_level is above 0, current_level *)
C38_ToggleTarget ==
    /\ [][(ButtonWork /\ last_op'.op = "toggle") =>
            /\ on_off' = ~on_off
            /\ IF ~on_off
               THEN /\ fade_req'.target =
                          (IF current_level > 0 THEN current_level
                           ELSE IF last_brightness > 0 THEN last_brightness
                           ELSE 255)
                    /\ fade_req'.target > 0
                    /\ current_level' = fade_req'.target
               ELSE /\ fade_req'.target = 0
                    /\ current_level' = current_level]_vars
    /\ [](LET s1 == light_toggle(hw, Transition, Work, on_off, current_level,
                                 last_brightness, on_off_transition_time,
                                 TRUE)
              s2 == light_toggle(s1.h, s1.tr, s1.wk, s1.on_off,
                                 s1.current_level, s1.last_brightness,
                                 on_off_transition_time, TRUE)
          IN  /\ s2.on_off = on_off
              /\ current_level > 0 => s2.current_level = current_level)

(* a toggle has turned the light on from level 0 with last_brightness 0:
   it is fading to 255 *)
C38_Witness ==
    /\ last_op.op = "toggle" /\ on_off
    /\ cmds = 1 /\ nvs = [on_off |-> 1, level |-> 255]
    /\ last_brightness = 255 /\ current_level = 255
    /\ fade_req.target = 255 /\ fade_req.start = 0 /\ fade_req.scheduled


(* C39: main() running after a power cycle, with the startup policies at
   Previous and the settings store working, gives the on_off and
   current_level attributes the values they had when the device went down,
   whatever commands, toggles and fades came before; and when its PWM write
   succeeds, current_brightness is current_level if on_off, else 0 *)
C39_RebootRoundTrip ==
    [][(/\ Main
        /\ last_op.op = "reboot"
        /\ settings_err.subsys_init = 0 /\ settings_err.load = 0
        /\ main_ret' = "loop") =>
            /\ start_up_on_off' = ZB_ZCL_ON_OFF_STARTUP_PREVIOUS
            /\ start_up_current_level' = ZB_ZCL_LEVEL_STARTUP_PREVIOUS
            /\ on_off' = (last_op.arg = 1)
            /\ current_level' = last_op.level
            /\ last_op'.ok =>
                 hw'.current_brightness =
                     (IF on_off' THEN current_level' ELSE 0)]_vars

(* the device went down on at level 1, after a command and a toggle, and
   main() has brought it back on at level 1 *)
C39_Witness ==
    /\ last_op.op = "main" /\ last_op.ok
    /\ cmds > 0
    /\ on_off /\ current_level = 1
    /\ nvs = [on_off |-> 1, level |-> 1]
    /\ hw.current_brightness = 1


(* the fade ticks waiting in the work queue, in order *)
QueuedTicks(q) == SelectSeq(q, LAMBDA w : w = "transition")

(* C40: starting an effect, the expiry of an effect step's timeout and
   every run of effect_work_handler (a step, the restore that completes
   the effect, Stop and FinishEffect) leave on_off, current_level,
   last_brightness, the settings store and the fade's variables as they
   were, and leave a fade tick pending exactly as it was pending: neither
   cancelled nor scheduled *)
C40_EffectsTouchOutputOnly ==
    [][(StartAnyIdentifyEffect \/ ExpireEffect \/ EffectWork) =>
            /\ UNCHANGED <<on_off, current_level, last_brightness, nvs,
                           on_off_transition_time, trVars>>
            /\ ("transition" \in timers') = ("transition" \in timers)
            /\ QueuedTicks(workq') = QueuedTicks(workq)]_vars

(* an effect step has written full brightness while the fade of a toggle
   that turned the light on still has a tick pending *)
C40_Witness ==
    /\ last_op.op = "effect" /\ last_op.level = FULL_BRIGHTNESS
    /\ last_op.ok /\ hw.current_brightness = FULL_BRIGHTNESS
    /\ TransitionPending
    /\ on_off /\ nvs.on_off = 1
    /\ EffectPending

=============================================================================
